---- MODULE Spec2Model ----
(***************************************************************************)
(* A model of py_module/code_analyzer.py of GenAI-Lab: the file collector, *)
(* the Code Context Graph (CCG) builder analyze_ccg with its AST visitor   *)
(* _CCGVisitor, the query helpers find_callers / find_callees, the symbol  *)
(* and TODO extractors, analyze_path and ccg_to_mermaid; of                *)
(* generate_project_summary of py_module/project_summary.py and of         *)
(* clone_repo of py_module/repo_utils.py; and of build_ccg of              *)
(* py_module/ccg_builder.py.                                               *)
(*                                                                         *)
(* Python strings are modelled as sequences of one-character strings, so   *)
(* that prefixes, suffixes, substrings and the lexicographic order are     *)
(* computed and not assumed.  A path is a sequence of components (each a   *)
(* string); an absolute path starts with the anchor component "/".         *)
(***************************************************************************)
EXTENDS Integers, Sequences, FiniteSets, TLC

(***************************************************************************)
(* Bounds of the model.                                                    *)
(***************************************************************************)
\* at most this many directory entries exist below the analysed root
MaxFiles == 2
\* the graph of one root is built at most this many times
MaxBuilds == 2

(***************************************************************************)
(* Strings.                                                                *)
(***************************************************************************)
\* the characters that occur in the model, in increasing code-point order
AsciiOrder ==
    << "-", ".", "/", "2", ":", "<", ">", "A", "B", "C", "D", "E", "M", "R", "T",
       "_", "a", "b", "c", "d", "e", "f", "g", "h", "i", "j", "k", "l", "m", "n", "o",
       "p", "q", "r", "s", "t", "u", "v", "w", "x", "y", "z" >>

Ord(c) == CHOOSE i \in 1..Len(AsciiOrder) : AsciiOrder[i] = c

UpperCase == {"A", "B", "C", "M", "T"}

\* the value of a missing dict key (nd.get("qualname") is None)
None == << "None" >>

\* Python's str < str: lexicographic by code point
RECURSIVE StrLess(_, _)
StrLess(a, b) ==
    IF b = << >> THEN FALSE
    ELSE IF a = << >> THEN TRUE
    ELSE IF Head(a) = Head(b) THEN StrLess(Tail(a), Tail(b))
    ELSE Ord(Head(a)) < Ord(Head(b))

EndsWith(s, x) == Len(x) <= Len(s) /\ SubSeq(s, Len(s) - Len(x) + 1, Len(s)) = x

\* Python's  x in s  on strings
Contains(s, x) ==
    \E i \in 0..(Len(s) - Len(x)) : SubSeq(s, i + 1, i + Len(x)) = x

\* sep.join(parts), the list joined half by half
RECURSIVE Join(_, _)
Join(parts, sep) ==
    IF parts = << >> THEN << >>
    ELSE IF Len(parts) = 1 THEN parts[1]
    ELSE LET h == Len(parts) \div 2
         IN  Join(SubSeq(parts, 1, h), sep) \o sep
                 \o Join(SubSeq(parts, h + 1, Len(parts)), sep)

\* s.replace(old, new) for a one-character old
ReplaceChar(s, old, new) == [i \in 1..Len(s) |-> IF s[i] = old THEN new ELSE s[i]]

Range(s) == {s[i] : i \in 1..Len(s)}

\* all the orders in which a finite set can be iterated
Perms(S) ==
    {p \in [1..Cardinality(S) -> S] : \A i, j \in 1..Cardinality(S) : p[i] = p[j] => i = j}

(***************************************************************************)
(* Paths (pathlib.PurePosixPath).                                          *)
(***************************************************************************)
Anchor == << "/" >>
OsSep == "/"

sPy == << ".", "p", "y" >>
sMd == << ".", "m", "d" >>

IsAbsolute(p) == p # << >> /\ p[1] = Anchor

\* PurePath.__lt__ compares the lists of parts
RECURSIVE PathLess(_, _)
PathLess(p, q) ==
    IF q = << >> THEN FALSE
    ELSE IF p = << >> THEN TRUE
    ELSE IF Head(p) = Head(q) THEN PathLess(Tail(p), Tail(q))
    ELSE StrLess(Head(p), Head(q))

\* sorted(S) for a set of paths
RECURSIVE SortedPaths(_)
SortedPaths(S) ==
    IF S = {} THEN << >>
    ELSE LET m == CHOOSE x \in S : \A y \in S \ {x} : PathLess(x, y)
         IN  << m >> \o SortedPaths(S \ {m})

\* str(path)
PathStr(p) ==
    IF IsAbsolute(p) THEN Anchor \o Join(Tail(p), << OsSep >>)
    ELSE Join(p, << OsSep >>)

\* the process's working directory
Cwd == << Anchor, << "w" >> >>

(***************************************************************************)
(* The file system the program reads.  fs.root is the root argument as the *)
(* caller passes it (absolute, or relative to the working directory),      *)
(* fs.exists says whether that directory exists, and fs.entries are the    *)
(* files below it: rel is the path below the root, link the resolved       *)
(* target when the entry is a symbolic link (<< >> otherwise), and         *)
(* content what ast.parse makes of the text: ok = FALSE for a file that    *)
(* does not parse, body the statements of the module otherwise.            *)
(***************************************************************************)
NoLink == << >>

FileEntry(rel, content) == [rel |-> rel, link |-> NoLink, content |-> content]
LinkEntry(rel, target, content) == [rel |-> rel, link |-> target, content |-> content]

\* the directories below the root: the proper prefixes of the files' paths
DirsOf(fs) ==
    UNION {{SubSeq(e.rel, 1, k) : k \in 1..(Len(e.rel) - 1)} : e \in fs.entries}

\* every path below the root, files and directories, relative to it
RelPathsOf(fs) == {e.rel : e \in fs.entries} \cup DirsOf(fs)

\* root_p = Path(root) if root else Path.cwd()
RootPath(fs) == IF fs.root = << >> THEN Cwd ELSE fs.root

\* Path.resolve(): an absolute path, symbolic links followed
Resolve(fs, p) ==
    LET hit == {e \in fs.entries : RootPath(fs) \o e.rel = p /\ e.link # NoLink}
    IN  IF hit # {} THEN (CHOOSE e \in hit : TRUE).link
        ELSE IF IsAbsolute(p) THEN p
        ELSE Cwd \o p

\* the orders in which the directory scan can report the paths below the root
ScanOrders(fs) == Perms(RelPathsOf(fs))

\* root_p.rglob("*" + ext), the scan reporting the paths in the order scan:
\* nothing when the root is not a directory, else root / rel for every path
\* below the root whose last component ends with ext
rglob(fs, ext, scan) ==
    IF ~fs.exists THEN << >>
    ELSE LET hits == SelectSeq(scan, LAMBDA r : EndsWith(r[Len(r)], ext))
         IN  [i \in 1..Len(hits) |-> RootPath(fs) \o hits[i]]

\* for ext in exts: files.extend(root_p.rglob(f"*{ext}"))
RECURSIVE CollectExts(_, _, _)
CollectExts(fs, exts, scan) ==
    IF exts = << >> THEN << >>
    ELSE rglob(fs, Head(exts), scan) \o CollectExts(fs, Tail(exts), scan)

\* exts = [".py", ".jac", ".md", ".txt"] when exts is None
DefaultExts == << sPy, << ".", "j", "a", "c" >>, sMd, << ".", "t", "x", "t" >> >>

\* a plausible slip: the matches resolved but neither deduplicated nor sorted
find_code_files_listed(fs, exts, scan) ==
    LET files == CollectExts(fs, IF exts = None THEN DefaultExts ELSE exts, scan)
    IN  [i \in 1..Len(files) |-> Resolve(fs, files[i])]

\* find_code_files: sorted({p.resolve() for p in files})
find_code_files(fs, exts, scan) ==
    LET files == CollectExts(fs, IF exts = None THEN DefaultExts ELSE exts, scan)
    IN  SortedPaths({Resolve(fs, files[i]) : i \in 1..Len(files)})

\* the entry whose resolved path is p (read_text reads it); {} for a directory
EntriesAt(fs, p) == {e \in fs.entries : Resolve(fs, RootPath(fs) \o e.rel) = p}

(***************************************************************************)
(* Syntax trees (module ast).  A statement or expression node is a record  *)
(* with its kind; body holds the children generic_visit descends into.     *)
(***************************************************************************)
Name(id) == [kind |-> "Name", id |-> id]
Attribute(value, attr) == [kind |-> "Attribute", value |-> value, attr |-> attr]
\* any other expression, with the text ast.unparse gives it
OtherExpr(text) == [kind |-> "Other", text |-> text]

FunctionDef(name, body) ==
    [kind |-> "FunctionDef", name |-> name, bases |-> << >>, func |-> None, body |-> body]
AsyncFunctionDef(name, body) ==
    [kind |-> "AsyncFunctionDef", name |-> name, bases |-> << >>, func |-> None, body |-> body]
ClassDef(name, bases, body) ==
    [kind |-> "ClassDef", name |-> name, bases |-> bases, func |-> None, body |-> body]
\* a call expression (as an expression statement or an argument); body = its arguments
Call(func, args) ==
    [kind |-> "Call", name |-> None, bases |-> << >>, func |-> func, body |-> args]

Parsed(body) == [ok |-> TRUE, body |-> body]
Unparsable == [ok |-> FALSE, body |-> << >>]

(***************************************************************************)
(* _CCGVisitor.                                                            *)
(***************************************************************************)
sQual == << ":", ":" >>
sModuleSite == << "<", "m", "o", "d", "u", "l", "e", ">" >>

NewVisitor(module) ==
    [module |-> module, funcs |-> {}, classes |-> {}, calls |-> << >>,
     instantiates |-> << >>, class_bases |-> << >>,
     current_function |-> None, current_class |-> None]

\* the dotted name of a base: parts collected from the outermost attribute inwards,
\* the root name last, then reversed
RECURSIVE AttrParts(_)
AttrParts(e) ==
    IF e.kind = "Attribute" THEN << e.attr >> \o AttrParts(e.value)
    ELSE IF e.kind = "Name" THEN << e.id >>
    ELSE << >>

Reverse(q) == [i \in 1..Len(q) |-> q[Len(q) + 1 - i]]

BaseName(b) ==
    IF b.kind = "Name" THEN b.id
    ELSE IF b.kind = "Attribute" THEN Join(Reverse(AttrParts(b)), << "." >>)
    ELSE b.text

\* class_bases[qual] = bases on an insertion-ordered dict
SetBases(cb, qual, bases) ==
    IF \E i \in 1..Len(cb) : cb[i].cls = qual
    THEN [i \in 1..Len(cb) |-> IF cb[i].cls = qual THEN [cls |-> qual, bases |-> bases] ELSE cb[i]]
    ELSE Append(cb, [cls |-> qual, bases |-> bases])

\* the name a call resolves to: the identifier, or the last attribute
CallName(func) ==
    IF func.kind = "Name" THEN func.id
    ELSE IF func.kind = "Attribute" THEN func.attr
    ELSE None

\* self.current_function or self.current_class or f"{self.module}::<module>"
Site(v) ==
    IF v.current_function # None THEN v.current_function
    ELSE IF v.current_class # None THEN v.current_class
    ELSE v.module \o sQual \o sModuleSite

\* qual = f"{self.module}::{node.name}"
QualOf(v, node) == v.module \o sQual \o node.name

RECURSIVE Visit(_, _)
RECURSIVE GenericVisit(_, _)

visit_FunctionDef(v, node) ==
    LET qual == QualOf(v, node)
        v1 == [v EXCEPT !.funcs = @ \cup {qual}, !.current_function = qual]
        v2 == GenericVisit(v1, node.body)
    IN  [v2 EXCEPT !.current_function = v.current_function]

visit_ClassDef(v, node) ==
    LET qual == QualOf(v, node)
        bases == [i \in 1..Len(node.bases) |-> BaseName(node.bases[i])]
        v1 == [v EXCEPT !.classes = @ \cup {qual},
                        !.class_bases = SetBases(@, qual, bases),
                        !.current_class = qual]
        v2 == GenericVisit(v1, node.body)
    IN  [v2 EXCEPT !.current_class = v.current_class]

visit_Call(v, node) ==
    LET name == CallName(node.func)
        site == Site(v)
        v1 == IF name # None /\ name # << >>
              THEN [v EXCEPT !.calls = Append(@, << site, name >>),
                             !.instantiates = IF Head(name) \in UpperCase
                                              THEN Append(@, << site, name >>)
                                              ELSE @]
              ELSE v
    IN  GenericVisit(v1, node.body)

Visit(v, node) ==
    IF node.kind \in {"FunctionDef", "AsyncFunctionDef"} THEN visit_FunctionDef(v, node)
    ELSE IF node.kind = "ClassDef" THEN visit_ClassDef(v, node)
    ELSE IF node.kind = "Call" THEN visit_Call(v, node)
    ELSE GenericVisit(v, node.body)

GenericVisit(v, children) ==
    IF children = << >> THEN v
    ELSE GenericVisit(Visit(v, Head(children)), Tail(children))

(***************************************************************************)
(* analyze_ccg.  nodes is the insertion-ordered dict of the code, as the   *)
(* sequence of its values with the key in the field id; edges is the list  *)
(* of edges.                                                               *)
(***************************************************************************)
sMod == << "m", "o", "d", ":" >>
sFn == << "f", "n", ":" >>
sClass == << "c", "l", "a", "s", "s", ":" >>
sBase == << "b", "a", "s", "e", ":" >>
sFnUnresolved == << "f", "n", ":", "u", "n", "r", "e", "s", "o", "l", "v", "e", "d", ":", ":" >>
sClassUnresolved ==
    << "c", "l", "a", "s", "s", ":", "u", "n", "r", "e", "s", "o", "l", "v", "e", "d", ":", ":" >>

Node(id, type, name, qualname, module, file) ==
    [id |-> id, type |-> type, name |-> name, qualname |-> qualname,
     module |-> module, file |-> file]

Edge(from, to, type) == [from |-> from, to |-> to, type |-> type, label |-> type]

EmptyCcg == [nodes |-> << >>, edges |-> << >>, meta |-> [files_analyzed |-> 0]]

NodeIds(nodes) == {nodes[i].id : i \in 1..Len(nodes)}

\* nodes.setdefault(nd.id, nd)
SetDefault(nodes, nd) == IF nd.id \in NodeIds(nodes) THEN nodes ELSE Append(nodes, nd)

\* fn.split("::")[-1]
RECURSIVE LastSegment(_)
LastSegment(q) ==
    IF \E i \in 1..(Len(q) - 1) : SubSeq(q, i, i + 1) = sQual
    THEN LET i == CHOOSE i \in 1..(Len(q) - 1) :
                      /\ SubSeq(q, i, i + 1) = sQual
                      /\ \A j \in 1..(i - 1) : SubSeq(q, j, j + 1) # sQual
         IN  LastSegment(SubSeq(q, i + 2, Len(q)))
    ELSE q

\* Path.relative_to: the part of p below base, or an error
IsBelow(p, base) == Len(base) <= Len(p) /\ SubSeq(p, 1, Len(base)) = base

\* _module_name_from_path
module_name_from_path(fs, path) ==
    LET p == Resolve(fs, path)
        root == Resolve(fs, RootPath(fs))
        rel == IF IsBelow(p, root)
               THEN Join(SubSeq(p, Len(root) + 1, Len(p)), << OsSep >>)
               ELSE p[Len(p)]
    IN  ReplaceChar(rel, OsSep, "/")

\* a plausible slip: the module node registered before the file is parsed
RECURSIVE ParseFilesEager(_, _, _)
ParseFilesEager(fs, files, acc) ==
    IF files = << >> THEN acc
    ELSE LET p == Head(files)
             at == EntriesAt(fs, p)
             module == module_name_from_path(fs, p)
             nd == Node(sMod \o module, "module", module, None, None, PathStr(p))
             withNode == [acc EXCEPT !.nodes = SetDefault(@, nd)]
         IN  IF at = {} \/ \A e \in at : ~e.content.ok
             THEN ParseFilesEager(fs, Tail(files), withNode)
             ELSE LET e == CHOOSE e \in at : e.content.ok
                      v == GenericVisit(NewVisitor(module), e.content.body)
                  IN  ParseFilesEager(fs, Tail(files),
                          [withNode EXCEPT !.visitors = Append(@, v)])

\* the first loop of analyze_ccg (lines 162-172): every file that can be read and
\* parsed gets a visitor and a module node; the others are skipped
RECURSIVE ParseFiles(_, _, _)
ParseFiles(fs, files, acc) ==
    IF files = << >> THEN acc
    ELSE LET p == Head(files)
             at == EntriesAt(fs, p)
         IN  IF at = {} \/ \A e \in at : ~e.content.ok
             THEN ParseFiles(fs, Tail(files), acc)
             ELSE LET e == CHOOSE e \in at : e.content.ok
                      module == module_name_from_path(fs, p)
                      v == GenericVisit(NewVisitor(module), e.content.body)
                      nd == Node(sMod \o module, "module", module, None, None, PathStr(p))
                  IN  ParseFiles(fs, Tail(files),
                          [visitors |-> Append(acc.visitors, v),
                           nodes |-> SetDefault(acc.nodes, nd)])

\* the iteration orders of the sets v.funcs and v.classes of every visitor
IterOrders(visitors) ==
    {o \in [1..Len(visitors) ->
                UNION {Perms(visitors[i].funcs) \X Perms(visitors[i].classes) :
                       i \in 1..Len(visitors)}] :
        \A i \in 1..Len(visitors) :
            o[i] \in Perms(visitors[i].funcs) \X Perms(visitors[i].classes)}

\* for fn in v.funcs (lines 176-178) / for cl in v.classes (lines 179-181)
RECURSIVE AddDefs(_, _, _, _, _)
AddDefs(g, module, quals, prefix, type) ==
    IF quals = << >> THEN g
    ELSE LET q == Head(quals)
             nd == Node(prefix \o q, type, LastSegment(q), q, module, None)
         IN  AddDefs([nodes |-> SetDefault(g.nodes, nd),
                      edges |-> Append(g.edges, Edge(sMod \o module, prefix \o q, "defines"))],
                     module, Tail(quals), prefix, type)

\* the second loop (lines 174-181)
RECURSIVE DefinePass(_, _, _, _)
DefinePass(g, visitors, order, i) ==
    IF i > Len(visitors) THEN g
    ELSE LET v == visitors[i]
             g1 == AddDefs(g, v.module, order[i][1], sFn, "function")
             g2 == AddDefs(g1, v.module, order[i][2], sClass, "class")
         IN  DefinePass(g2, visitors, order, i + 1)

\* the inherits edge of line 188
InheritsEdge(cl_qual, base_nid) == Edge(sClass \o cl_qual, base_nid, "inherits")

\* for b in bases (lines 185-188)
RECURSIVE AddBases(_, _, _)
AddBases(g, cl_qual, bases) ==
    IF bases = << >> THEN g
    ELSE LET b == Head(bases)
             base_nid == sBase \o b
             nd == Node(base_nid, "base", b, None, None, None)
         IN  AddBases([nodes |-> SetDefault(g.nodes, nd),
                       edges |-> Append(g.edges, InheritsEdge(cl_qual, base_nid))],
                      cl_qual, Tail(bases))

RECURSIVE AddClassBases(_, _)
AddClassBases(g, cb) ==
    IF cb = << >> THEN g
    ELSE AddClassBases(AddBases(g, Head(cb).cls, Head(cb).bases), Tail(cb))

\* the third loop (lines 183-188)
RECURSIVE InheritPass(_, _)
InheritPass(g, visitors) ==
    IF visitors = << >> THEN g
    ELSE InheritPass(AddClassBases(g, Head(visitors).class_bases), Tail(visitors))

\* a value that is not None and not the empty string
Truthy(x) == x # None /\ x # << >>

\* name_to_node.get(key, []) on the node dict as it is when the fourth loop
\* reaches a visitor (lines 192-197): the ids of the nodes whose name or
\* qualname is key, in insertion order; << >> when there is none
Candidates(snapshot, key) ==
    LET hit(nd) == \/ (Truthy(nd.name) /\ nd.name = key)
                   \/ (Truthy(nd.qualname) /\ nd.qualname = key)
        hits == SelectSeq(snapshot, hit)
    IN  [i \in 1..Len(hits) |-> hits[i].id]

\* a plausible slip: the last match taken instead of the first
PickCandidateLast(candidate_ids) == candidate_ids[Len(candidate_ids)]

\* candidate_ids[0] (lines 208 and 218)
PickCandidate(candidate_ids) == candidate_ids[1]

\* the node a call site belongs to (lines 200-205 and 215)
CallerNid(nodes, module, site) ==
    IF (sFn \o site) \in NodeIds(nodes) THEN sFn \o site
    ELSE IF (sClass \o site) \in NodeIds(nodes) THEN sClass \o site
    ELSE sMod \o module

\* a plausible slip: the placeholder of an unresolved call named but not registered
AddUnresolvedLazy(nodes, nid, type, name) == nodes

\* nodes.setdefault(to_nid, {"type": ..., "name": ...}) (lines 211 and 221)
AddUnresolved(nodes, nid, type, name) ==
    SetDefault(nodes, Node(nid, type, name, None, None, None))

\* for caller_site, callee_name in v.calls (lines 199-212)
RECURSIVE AddCalls(_, _, _, _)
AddCalls(g, module, snapshot, calls) ==
    IF calls = << >> THEN g
    ELSE LET site == Head(calls)[1]
             callee_name == Head(calls)[2]
             caller_nid == CallerNid(g.nodes, module, site)
             candidate_ids == Candidates(snapshot, callee_name)
             to_nid == IF candidate_ids # << >> THEN PickCandidate(candidate_ids)
                       ELSE sFnUnresolved \o callee_name
             nodes1 == IF candidate_ids # << >> THEN g.nodes
                       ELSE AddUnresolved(g.nodes, to_nid, "unresolved", callee_name)
         IN  AddCalls([nodes |-> nodes1,
                       edges |-> Append(g.edges, Edge(caller_nid, to_nid, "calls"))],
                      module, snapshot, Tail(calls))

\* for site, cls in v.instantiates (lines 214-222)
RECURSIVE AddInstantiates(_, _, _, _)
AddInstantiates(g, module, snapshot, insts) ==
    IF insts = << >> THEN g
    ELSE LET site == Head(insts)[1]
             cls == Head(insts)[2]
             caller_nid == CallerNid(g.nodes, module, site)
             class_candidates == Candidates(snapshot, cls)
             class_nid == IF class_candidates # << >> THEN PickCandidate(class_candidates)
                          ELSE sClassUnresolved \o cls
             nodes1 == IF class_candidates # << >> THEN g.nodes
                       ELSE AddUnresolved(g.nodes, class_nid, "unresolved_class", cls)
         IN  AddInstantiates([nodes |-> nodes1,
                              edges |-> Append(g.edges,
                                               Edge(caller_nid, class_nid, "instantiates"))],
                             module, snapshot, Tail(insts))

\* a plausible slip: the names looked up again after the calls were added
RECURSIVE CallPassRefreshed(_, _)
CallPassRefreshed(g, visitors) ==
    IF visitors = << >> THEN g
    ELSE LET v == Head(visitors)
             g1 == AddCalls(g, v.module, g.nodes, v.calls)
             g2 == AddInstantiates(g1, v.module, g1.nodes, v.instantiates)
         IN  CallPassRefreshed(g2, Tail(visitors))

\* the fourth loop (lines 190-222)
RECURSIVE CallPass(_, _)
CallPass(g, visitors) ==
    IF visitors = << >> THEN g
    ELSE LET v == Head(visitors)
             snapshot == g.nodes
             g1 == AddCalls(g, v.module, snapshot, v.calls)
             g2 == AddInstantiates(g1, v.module, snapshot, v.instantiates)
         IN  CallPass(g2, Tail(visitors))

\* the files analyze_ccg works on (line 157) and what the first loop makes of them
PyFiles(fs, scan) == find_code_files(fs, << sPy >>, scan)

VisitorsOf(fs, scan) ==
    ParseFiles(fs, PyFiles(fs, scan), [visitors |-> << >>, nodes |-> << >>]).visitors

\* analyze_ccg(repo_root), the directory scan and the set iterations going in
\* the orders scan and order
analyze_ccg(fs, scan, order) ==
    LET py_files == PyFiles(fs, scan)
        parsed == ParseFiles(fs, py_files, [visitors |-> << >>, nodes |-> << >>])
        g0 == [nodes |-> parsed.nodes, edges |-> << >>]
        g1 == DefinePass(g0, parsed.visitors, order, 1)
        g2 == InheritPass(g1, parsed.visitors)
        g3 == CallPass(g2, parsed.visitors)
    IN  [nodes |-> g3.nodes, edges |-> g3.edges,
         meta |-> [files_analyzed |-> Len(py_files)]]

(***************************************************************************)
(* The query helpers.                                                      *)
(***************************************************************************)
\* the ids of the nodes a query name stands for (lines 228-231 and 240-243):
\* the nodes whose name or qualname is the name, and when there is none, the
\* nodes whose id contains the name
MatchIds(ccg, name) ==
    LET exact == {ccg.nodes[i].id : i \in
                     {i \in 1..Len(ccg.nodes) :
                         ccg.nodes[i].name = name \/ ccg.nodes[i].qualname = name}}
    IN  IF exact # {} THEN exact
        ELSE {id \in NodeIds(ccg.nodes) : Contains(id, name)}

\* ccg["nodes"].get(nid)
NodeInfo(ccg, nid) ==
    IF nid \in NodeIds(ccg.nodes)
    THEN LET i == CHOOSE i \in 1..Len(ccg.nodes) : ccg.nodes[i].id = nid
         IN  ccg.nodes[i]
    ELSE Node(nid, None, None, None, None, None)

\* find_callers(ccg, target_name): one entry per matching calls edge, in edge order
find_callers(ccg, target_name) ==
    LET target_ids == MatchIds(ccg, target_name)
        hits == SelectSeq(ccg.edges, LAMBDA e : e.type = "calls" /\ e.to \in target_ids)
    IN  [i \in 1..Len(hits) |-> [node_id |-> hits[i].from, info |-> NodeInfo(ccg, hits[i].from)]]

\* find_callees(ccg, source_name)
find_callees(ccg, source_name) ==
    LET source_ids == MatchIds(ccg, source_name)
        hits == SelectSeq(ccg.edges, LAMBDA e : e.from \in source_ids /\ e.type = "calls")
    IN  [i \in 1..Len(hits) |-> [to |-> hits[i].to, label |-> hits[i].label]]

(***************************************************************************)
(* The symbol extractor, the TODO extractor and analyze_path.  A file read *)
(* by them has, besides what ast.parse makes of it, its text.              *)
(***************************************************************************)
\* an expression statement that is a string constant
StrExpr(s) ==
    [kind |-> "Expr", name |-> None, bases |-> << >>, func |-> None, body |-> << >>,
     value |-> s]
\* any other statement, body = the definitions and calls it holds
Stmt(children) ==
    [kind |-> "Stmt", name |-> None, bases |-> << >>, func |-> None, body |-> children]

\* a file: its text and what ast.parse makes of the text
Source(text, content) == [ok |-> content.ok, body |-> content.body, text |-> text]

\* PurePath.suffix: the name from its last dot on, when that dot is neither
\* its first nor its last character
Suffix(name) ==
    LET dots == {i \in 1..Len(name) : name[i] = "."}
    IN  IF dots = {} THEN << >>
        ELSE LET i == CHOOSE d \in dots : \A e \in dots : e <= d
             IN  IF 1 < i /\ i < Len(name) THEN SubSeq(name, i, Len(name)) ELSE << >>

\* \s of the regular expressions, and the characters str.strip() removes
WhiteSpace == { " ", "\n", "\t" }

\* \w of the regular expressions
WordChars ==
    { "a", "b", "c", "d", "e", "f", "g", "h", "i", "j", "k", "l", "m", "n", "o", "p",
      "q", "r", "s", "t", "u", "v", "w", "x", "y", "z", "A", "B", "C", "D", "E", "F",
      "G", "H", "I", "J", "K", "L", "M", "N", "O", "P", "Q", "R", "S", "T", "U", "V",
      "W", "X", "Y", "Z", "0", "1", "2", "3", "4", "5", "6", "7", "8", "9", "_" }

\* str.lstrip() / str.strip()
RECURSIVE LStrip(_)
LStrip(s) ==
    IF s # << >> /\ Head(s) \in WhiteSpace THEN LStrip(Tail(s)) ELSE s

Strip(s) == Reverse(LStrip(Reverse(LStrip(s))))

\* \bTODO\b of TODO_REGEX (re.IGNORECASE) matches at position i of s
TodoAt(s, i) ==
    /\ i + 3 <= Len(s)
    /\ s[i] \in {"t", "T"} /\ s[i + 1] \in {"o", "O"}
    /\ s[i + 2] \in {"d", "D"} /\ s[i + 3] \in {"o", "O"}
    /\ (i = 1 \/ s[i - 1] \notin WordChars)
    /\ (i + 4 > Len(s) \/ s[i + 4] \notin WordChars)

\* for m in TODO_REGEX.finditer(text), from position pos on: after the word an
\* optional character of [:\s-], then group 1 = (.*), the rest of the line
RECURSIVE FindTodos(_, _)
FindTodos(s, pos) ==
    LET starts == {i \in pos..Len(s) : TodoAt(s, i)}
    IN  IF starts = {} THEN << >>
        ELSE LET i == CHOOSE a \in starts : \A b \in starts : a <= b
                 after == i + 4
                 from == IF after <= Len(s) /\ s[after] \in ({":", "-"} \cup WhiteSpace)
                         THEN after + 1 ELSE after
                 ends == {j \in from..Len(s) : s[j] = "\n"}
                 to == IF ends = {} THEN Len(s) + 1
                       ELSE CHOOSE a \in ends : \A b \in ends : a <= b
                 val == Strip(SubSeq(s, from, to - 1))
             IN  << IF val # << >> THEN val ELSE << "T", "O", "D", "O" >> >>
                     \o FindTodos(s, to)

\* extract_todos(path): [] for a path that cannot be read
extract_todos(fs, path) ==
    LET at == EntriesAt(fs, path)
    IN  IF at = {} THEN << >>
        ELSE FindTodos((CHOOSE e \in at : TRUE).content.text, 1)

\* inspect.cleandoc of a docstring of one line
cleandoc(doc) == LStrip(doc)

\* ast.get_docstring(node)
get_docstring(node) ==
    IF node.body # << >> /\ Head(node.body).kind = "Expr"
    THEN cleandoc(Head(node.body).value)
    ELSE None

DefEntry(type, node) ==
    LET doc == get_docstring(node)
    IN  [type |-> type, name |-> node.name, doc |-> IF Truthy(doc) THEN doc ELSE << >>]

\* for node in tree.body (lines 44-48)
RECURSIVE TopLevelDefs(_)
TopLevelDefs(body) ==
    IF body = << >> THEN << >>
    ELSE LET node == Head(body)
         IN  (IF node.kind = "FunctionDef" THEN << DefEntry("function", node) >>
              ELSE IF node.kind = "ClassDef" THEN << DefEntry("class", node) >>
              ELSE << >>)
             \o TopLevelDefs(Tail(body))

\* extract_top_level_defs_py(path)
extract_top_level_defs_py(fs, path) ==
    LET at == EntriesAt(fs, path)
    IN  IF at = {} \/ Suffix(path[Len(path)]) # sPy THEN << >>
        ELSE LET e == CHOOSE e \in at : TRUE
             IN  IF ~e.content.ok THEN << >> ELSE TopLevelDefs(e.content.body)

\* a plausible slip: todo_count counts the files that have a TODO
AddTodoCountPerFile(count, todos) == IF todos # << >> THEN count + 1 ELSE count

\* if todos: todo_count += len(todos) (lines 63-65)
AddTodoCount(count, todos) == IF todos # << >> THEN count + Len(todos) ELSE count

\* the loop of analyze_path (lines 60-71)
RECURSIVE AnalyzeFiles(_, _, _)
AnalyzeFiles(fs, paths, out) ==
    IF paths = << >> THEN out
    ELSE LET f == Head(paths)
             todos == extract_todos(fs, f)
             ext == Suffix(f[Len(f)])
             defs == IF ext = sPy THEN extract_top_level_defs_py(fs, f) ELSE << >>
             entry == [path |-> PathStr(f), ext |-> ext, todos |-> todos, py_defs |-> defs]
         IN  AnalyzeFiles(fs, Tail(paths),
                 [out EXCEPT !.files = Append(@, entry),
                             !.summary.todo_count = AddTodoCount(@, todos),
                             !.summary.python_defs = @ + Len(defs)])

\* analyze_path(root)
analyze_path(fs, scan) ==
    AnalyzeFiles(fs, find_code_files(fs, None, scan),
        [path |-> PathStr(Resolve(fs, RootPath(fs))), files |-> << >>,
         summary |-> [todo_count |-> 0, python_defs |-> 0]])

(***************************************************************************)
(* ccg_to_mermaid.                                                         *)
(***************************************************************************)
\* max_nodes: int = 300
MaxNodesDefault == 300

\* the characters of a node type or an edge label
Chars(word) ==
    CASE word = "module" -> << "m", "o", "d", "u", "l", "e" >>
      [] word = "function" -> << "f", "u", "n", "c", "t", "i", "o", "n" >>
      [] word = "class" -> << "c", "l", "a", "s", "s" >>
      [] word = "base" -> << "b", "a", "s", "e" >>
      [] word = "unresolved" -> << "u", "n", "r", "e", "s", "o", "l", "v", "e", "d" >>
      [] word = "unresolved_class" ->
            << "u", "n", "r", "e", "s", "o", "l", "v", "e", "d", "_", "c", "l", "a", "s", "s" >>
      [] word = "defines" -> << "d", "e", "f", "i", "n", "e", "s" >>
      [] word = "inherits" -> << "i", "n", "h", "e", "r", "i", "t", "s" >>
      [] word = "calls" -> << "c", "a", "l", "l", "s" >>
      [] word = "instantiates" ->
            << "i", "n", "s", "t", "a", "n", "t", "i", "a", "t", "e", "s" >>

\* a plausible slip: the dots of an id left in place
SanitizeKeepDots(nid) ==
    ReplaceChar(ReplaceChar(ReplaceChar(nid, ":", "_"), "/", "_"), "-", "_")

\* nid.replace(":", "_").replace("/", "_").replace(".", "_").replace("-", "_")
Sanitize(nid) ==
    ReplaceChar(ReplaceChar(ReplaceChar(ReplaceChar(nid, ":", "_"), "/", "_"), ".", "_"),
                "-", "_")

Indent == << " ", " ", " ", " " >>

\* the grave accent of the code fences, a character that the strings of this
\* module cannot hold
Tick == "grave"

\* f'    {safe}["{label}\\n({nd.get("type")})"]' (lines 256-259)
BoxLine(nd) ==
    LET label == ReplaceChar(IF Truthy(nd.name) THEN nd.name ELSE nd.id, "\"", "'")
    IN  Indent \o Sanitize(nd.id) \o << "[", "\"" >> \o label \o << "\\", "n", "(" >>
            \o Chars(nd.type) \o << ")", "\"", "]" >>

\* f'    {src} -->|{lbl}| {dst}' (lines 262-266)
ArrowLine(e) ==
    Indent \o Sanitize(e.from) \o << " ", "-", "-", ">", "|" >>
        \o ReplaceChar(Chars(e.label), "\"", "'") \o << "|", " " >> \o Sanitize(e.to)

\* the list lines of ccg_to_mermaid: the node loop stops at max_nodes boxes,
\* the edge loop has no limit
MermaidLines(g, max_nodes) ==
    LET shown == IF Len(g.nodes) < max_nodes THEN Len(g.nodes) ELSE max_nodes
    IN  << << Tick, Tick, Tick, "m", "e", "r", "m", "a", "i", "d" >>,
           << "g", "r", "a", "p", "h", " ", "T", "D" >> >>
        \o [i \in 1..shown |-> BoxLine(g.nodes[i])]
        \o [i \in 1..Len(g.edges) |-> ArrowLine(g.edges[i])]
        \o << << Tick, Tick, Tick >> >>

\* ccg_to_mermaid(ccg, max_nodes)
ccg_to_mermaid(g, max_nodes) == Join(MermaidLines(g, max_nodes), << "\n" >>)

(***************************************************************************)
(* py_module/project_summary.py: the README finder and the summary that    *)
(* generate_project_summary returns.  A dict is a record of its keys.      *)
(***************************************************************************)
UpperLetters ==
    << "A", "B", "C", "D", "E", "F", "G", "H", "I", "J", "K", "L", "M", "N", "O", "P",
       "Q", "R", "S", "T", "U", "V", "W", "X", "Y", "Z" >>
LowerLetters ==
    << "a", "b", "c", "d", "e", "f", "g", "h", "i", "j", "k", "l", "m", "n", "o", "p",
       "q", "r", "s", "t", "u", "v", "w", "x", "y", "z" >>

\* str.lower()
Lower(s) ==
    [i \in 1..Len(s) |->
        IF \E k \in 1..Len(UpperLetters) : UpperLetters[k] = s[i]
        THEN LowerLetters[CHOOSE k \in 1..Len(UpperLetters) : UpperLetters[k] = s[i]]
        ELSE s[i]]

StartsWith(s, x) == Len(x) <= Len(s) /\ SubSeq(s, 1, Len(x)) = x

\* s[:n]
Take(s, n) == SubSeq(s, 1, IF Len(s) < n THEN Len(s) ELSE n)

\* s.count(x): the occurrences of x in s that do not overlap, from the left
RECURSIVE Count(_, _)
Count(s, x) ==
    LET at == {i \in 1..(Len(s) - Len(x) + 1) : SubSeq(s, i, i + Len(x) - 1) = x}
    IN  IF at = {} THEN 0
        ELSE LET i == CHOOSE a \in at : \A b \in at : a <= b
             IN  1 + Count(SubSeq(s, i + Len(x), Len(s)), x)

\* text.split("\n\n")
RECURSIVE SplitParagraphs(_)
SplitParagraphs(s) ==
    LET at == {i \in 1..(Len(s) - 1) : s[i] = "\n" /\ s[i + 1] = "\n"}
    IN  IF at = {} THEN << s >>
        ELSE LET i == CHOOSE a \in at : \A b \in at : a <= b
             IN  << SubSeq(s, 1, i - 1) >> \o SplitParagraphs(SubSeq(s, i + 2, Len(s)))

\* para[:400]
ParagraphLimit == 400

\* _read_first_paragraph, given the text of the file
read_first_paragraph(text) ==
    LET parts == SplitParagraphs(text)
        paras == SelectSeq([i \in 1..Len(parts) |-> Strip(parts[i])], LAMBDA p : p # << >>)
    IN  Strip(ReplaceChar(Take(IF paras # << >> THEN paras[1] ELSE text, ParagraphLimit),
                          "\n", " "))

\* sorted(S) for a set of strings
RECURSIVE SortedStrs(_)
SortedStrs(S) ==
    IF S = {} THEN << >>
    ELSE LET m == CHOOSE x \in S : \A y \in S \ {x} : StrLess(x, y)
         IN  << m >> \o SortedStrs(S \ {m})

\* os.path.abspath(repo_path): the working directory in front of a relative
\* path, links not followed
AbsPath(fs) == IF IsAbsolute(fs.root) THEN fs.root ELSE Cwd \o fs.root

sReadme == << "r", "e", "a", "d", "m", "e" >>

\* the files os.walk reports: the entries that are no directories
WalkFiles(fs) == IF fs.exists THEN fs.entries ELSE {}

\* find_readmes(root): os.walk reports every file once, in an order that the
\* sort makes irrelevant; the result is the sorted list of the path strings
find_readmes(fs) ==
    SortedStrs({PathStr(AbsPath(fs) \o e.rel) :
                   e \in {x \in WalkFiles(fs) :
                             StartsWith(Lower(x.rel[Len(x.rel)]), sReadme)}})

\* the text open(path).read() gives for a path string below the root
TextAt(fs, pathstr) ==
    (CHOOSE e \in fs.entries : PathStr(AbsPath(fs) \o e.rel) = pathstr).content.text

\* os.path.relpath(p, repo_path) for a path below repo_path
RelPath(fs, pathstr) ==
    SubSeq(pathstr, Len(PathStr(AbsPath(fs))) + 2, Len(pathstr))

\* what a call returns or raises
Returned(value) == [raised |-> "", value |-> value]
Raised(error) == [raised |-> error, value |-> << >>]

\* build_project_summary(repo_path)
build_project_summary(fs) ==
    IF ~fs.exists THEN Raised("FileNotFoundError")
    ELSE LET readme_paths == find_readmes(fs)
             summaries == [i \in 1..Len(readme_paths) |->
                              [path |-> RelPath(fs, readme_paths[i]),
                               summary |-> read_first_paragraph(TextAt(fs, readme_paths[i]))]]
         IN  Returned([repo_path |-> PathStr(AbsPath(fs)),
                       num_readmes |-> Len(summaries),
                       readmes |-> summaries])

\* os.path.splitext(fn)[1]: from the last dot on, unless only dots precede it
SplitExt(fn) ==
    LET dots == {i \in 1..Len(fn) : fn[i] = "."}
    IN  IF dots = {} THEN << >>
        ELSE LET i == CHOOSE d \in dots : \A e \in dots : e <= d
             IN  IF \E j \in 1..(i - 1) : fn[j] # "." THEN SubSeq(fn, i, Len(fn)) ELSE << >>

\* exts of _count_todos_in_path, those of the files of the model
TodoExts == { sPy, sMd, << ".", "t", "x", "t" >> }

\* a plausible slip: the summary of the last README
ReadmeSummaryLast(readmes) ==
    IF Len(readmes) > 0 THEN readmes[Len(readmes)].summary ELSE << >>

\* res["readme_summary"] = readmes[0].get("summary", "") (lines 183-185)
ReadmeSummary(readmes) ==
    IF Len(readmes) > 0 THEN readmes[1].summary ELSE << >>

\* _count_todos_in_path(path): the sum, over the files with one of the
\* extensions, of text.lower().count("todo")
RECURSIVE count_todos_in(_)
count_todos_in(entries) ==
    IF entries = {} THEN 0
    ELSE LET e == CHOOSE x \in entries : TRUE
         IN  (IF Lower(SplitExt(e.rel[Len(e.rel)])) \in TodoExts
              THEN Count(Lower(e.content.text), << "t", "o", "d", "o" >>) ELSE 0)
             + count_todos_in(entries \ {e})

\* generate_project_summary(path), the definition of lines 151-211
generate_project_summary(fs) ==
    LET res == build_project_summary(fs)
    IN  IF res.raised # "" THEN res
        ELSE Returned(
               [repo_path |-> res.value.repo_path,
                num_readmes |-> res.value.num_readmes,
                readmes |-> res.value.readmes,
                project_root |-> res.value.repo_path,
                readme_summary |-> ReadmeSummary(res.value.readmes),
                code_analysis |->
                    [summary |-> [todo_count |-> count_todos_in(WalkFiles(fs))],
                     files |-> << >>]])

(***************************************************************************)
(* py_module/repo_utils.py: clone_repo.  The disk is what lies at          *)
(* dest_parent: disk.parent says whether that directory exists, and        *)
(* disk.dirs holds, for every directory in it, its name and what it holds: *)
(* "data" (files that were there before any clone), "clone" (a complete    *)
(* clone) or "partial" (what an interrupted git clone left).               *)
(***************************************************************************)
\* dest_parent: str = "tmp_clones"
DestParent == << << "t", "m", "p", "_", "c", "l", "o", "n", "e", "s" >> >>

Names(disk) == {d.name : d \in disk.dirs}

\* what a git clone that starts may end with: the complete clone, a failure
\* after which git has removed what it wrote, or a failure (a timeout, a
\* kill) that leaves a part of the clone
GitOutcomes == { "cloned", "failed", "interrupted" }

\* s.rstrip("/")
RECURSIVE RStripSlash(_)
RStripSlash(s) ==
    IF s # << >> /\ s[Len(s)] = "/" THEN RStripSlash(SubSeq(s, 1, Len(s) - 1)) ELSE s

\* Path(s).name for an s without a trailing slash: what follows its last slash
PathName(s) ==
    LET slashes == {i \in 1..Len(s) : s[i] = "/"}
    IN  IF slashes = {} THEN s
        ELSE SubSeq(s, (CHOOSE i \in slashes : \A j \in slashes : j <= i) + 1, Len(s))

\* Path(final_url.rstrip("/")).name or "repo"
RepoName(final_url) ==
    LET name == PathName(RStripSlash(final_url))
    IN  IF name # << >> THEN name ELSE << "r", "e", "p", "o" >>

\* _unique_dest: f"{repo_name}-{ts}-{suffix}", ts the time of the call to the
\* second, suffix the first six hexadecimal digits of a random UUID
unique_dest(repo_name, ts, suffix) ==
    repo_name \o << "-" >> \o ts \o << "-" >> \o suffix

\* git clone <url> <dest>: git refuses a destination that exists and is not
\* an empty directory, and leaves it as it is
GitClone(disk, dest, outcome) ==
    IF dest \in Names(disk) THEN [ok |-> FALSE, disk |-> disk]
    ELSE IF outcome = "cloned"
    THEN [ok |-> TRUE, disk |-> [disk EXCEPT !.dirs = @ \cup {[name |-> dest, holds |-> "clone"]}]]
    ELSE IF outcome = "interrupted"
    THEN [ok |-> FALSE,
          disk |-> [disk EXCEPT !.dirs = @ \cup {[name |-> dest, holds |-> "partial"]}]]
    ELSE [ok |-> FALSE, disk |-> disk]

\* shutil.rmtree(dest)
RmTree(disk, dest) == [disk EXCEPT !.dirs = {d \in @ : d.name # dest}]

\* clone_repo(url, dest_parent): env is the value of REPO_URL, ts and suffix
\* what _unique_dest would read and draw, git how the clone ends, and removed
\* whether shutil.rmtree succeeds (its exception is passed over, line 61)
clone_repo(disk, url, env, ts, suffix, git, removed) ==
    LET final_url == IF Strip(url) # << >> THEN Strip(url) ELSE Strip(env)
        made == [disk EXCEPT !.parent = TRUE]
        repo_name == RepoName(final_url)
        dest == IF repo_name \in Names(made)
                THEN unique_dest(repo_name, ts, suffix) ELSE repo_name
        g == GitClone(made, dest, git)
    IN  IF final_url = << >>
        THEN [disk |-> disk, repo_name |-> << >>, dest |-> << >>,
              raised |-> "RuntimeError", value |-> << >>]
        ELSE IF g.ok
        THEN [disk |-> g.disk, repo_name |-> repo_name, dest |-> dest,
              raised |-> "", value |-> PathStr(DestParent \o << dest >>)]
        ELSE [disk |-> IF dest \in Names(g.disk) /\ removed THEN RmTree(g.disk, dest)
                       ELSE g.disk,
              repo_name |-> repo_name, dest |-> dest,
              raised |-> "RuntimeError", value |-> << >>]

(***************************************************************************)
(* py_module/ccg_builder.py: build_ccg.  The graph is the set of the node  *)
(* names and the list of the edges; an edge is a record with src, tgt and  *)
(* type.                                                                   *)
(***************************************************************************)
IGNORE_DIRS ==
    { << "e", "n", "v" >>, << ".", "v", "e", "n", "v" >>, << ".", "g", "i", "t" >>,
      << "t", "m", "p", "_", "c", "l", "o", "n", "e", "s" >>, << "v", "e", "n", "v" >>,
      << "_", "_", "p", "y", "c", "a", "c", "h", "e", "_", "_" >> }

\* _qualname
qualname(module, name) == IF module # << >> THEN module \o << "." >> \o name ELSE name

\* _get_attr_name: the dotted name of a Name or Attribute node, None otherwise
get_attr_name(node) ==
    IF node.kind = "Name" THEN node.id
    ELSE IF node.kind = "Attribute" THEN Join(Reverse(AttrParts(node)), << "." >>)
    ELSE None

\* _get_call_name
get_call_name(func) ==
    IF func.kind = "Name" THEN func.id
    ELSE IF func.kind = "Attribute" THEN get_attr_name(func)
    ELSE None

\* Path.is_file() of a path at or below the root
IsFile(fs, p) == fs.exists /\ EntriesAt(fs, Resolve(fs, p)) # {}

\* _iter_py_files(root): the root itself when it is a .py file, else what
\* root.rglob("*.py") reports, in the order of the scan, without the paths
\* that have a part in IGNORE_DIRS; p.parts are the parts of the root
\* followed by those below it.  A root that is not a directory has nothing
\* below it.
iter_py_files(fs, root, scan) ==
    IF IsFile(fs, root)
    THEN IF Suffix(root[Len(root)]) = sPy THEN << root >> ELSE << >>
    ELSE SelectSeq(rglob(fs, sPy, scan),
                   LAMBDA p : ~\E k \in 1..Len(p) : p[k] \in IGNORE_DIRS)

\* PurePath.stem
Stem(name) == SubSeq(name, 1, Len(name) - Len(Suffix(name)))

\* module = ".".join(f_resolved.relative_to(repo_root).with_suffix("").parts),
\* or f_resolved.stem for a file that is not below the working directory
BuilderModule(f_resolved) ==
    LET last == f_resolved[Len(f_resolved)]
    IN  IF IsBelow(f_resolved, Cwd) /\ Len(f_resolved) > Len(Cwd)
        THEN Join(SubSeq(f_resolved, Len(Cwd) + 1, Len(f_resolved) - 1) \o << Stem(last) >>,
                  << "." >>)
        ELSE Stem(last)

BuilderEdge(src, tgt, type) == [src |-> src, tgt |-> tgt, type |-> type]

\* for base in node.bases (lines 99-108)
RECURSIVE AddInherits(_, _, _)
AddInherits(b, q, bases) ==
    IF bases = << >> THEN b
    ELSE LET base == Head(bases)
             base_name == IF base.kind \in {"Name", "Attribute"} THEN get_attr_name(base)
                          ELSE None
         IN  AddInherits(
                 IF Truthy(base_name)
                 THEN [b EXCEPT !.nodes = @ \cup {base_name},
                                !.edges = Append(@, BuilderEdge(base_name, q, "inherit"))]
                 ELSE b,
                 q, Tail(bases))

\* for node in tree.body (lines 91-108)
RECURSIVE RecordTopLevel(_, _, _)
RecordTopLevel(b, module, body) ==
    IF body = << >> THEN b
    ELSE LET node == Head(body)
             q == qualname(module, node.name)
             b1 == IF node.kind = "FunctionDef" THEN [b EXCEPT !.nodes = @ \cup {q}]
                   ELSE IF node.kind = "ClassDef"
                        THEN AddInherits([b EXCEPT !.nodes = @ \cup {q}], q, node.bases)
                   ELSE b
         IN  RecordTopLevel(b1, module, Tail(body))

\* CallVisitor (lines 111-143); b holds module_name, current_fn and the nodes
\* and edges of build_ccg, which the visitor adds to
RECURSIVE CallVisitorVisit(_, _)
RECURSIVE CallVisitorGenericVisit(_, _)

CallVisitorFunctionDef(b, node) ==
    LET q == qualname(b.module_name, node.name)
        b1 == [b EXCEPT !.current_fn = q, !.nodes = @ \cup {q}]
        b2 == CallVisitorGenericVisit(b1, node.body)
    IN  [b2 EXCEPT !.current_fn = None]

CallVisitorClassDef(b, node) ==
    LET b1 == [b EXCEPT !.current_fn = qualname(b.module_name, node.name)]
        b2 == CallVisitorGenericVisit(b1, node.body)
    IN  [b2 EXCEPT !.current_fn = b.current_fn]

CallVisitorCall(b, node) ==
    LET name == get_call_name(node.func)
        b1 == IF Truthy(name)
              THEN [b EXCEPT !.nodes = @ \cup {name},
                             !.edges = IF Truthy(b.current_fn)
                                       THEN Append(@, BuilderEdge(b.current_fn, name, "call"))
                                       ELSE @]
              ELSE b
    IN  CallVisitorGenericVisit(b1, node.body)

CallVisitorVisit(b, node) ==
    IF node.kind = "FunctionDef" THEN CallVisitorFunctionDef(b, node)
    ELSE IF node.kind = "ClassDef" THEN CallVisitorClassDef(b, node)
    ELSE IF node.kind = "Call" THEN CallVisitorCall(b, node)
    ELSE CallVisitorGenericVisit(b, node.body)

CallVisitorGenericVisit(b, children) ==
    IF children = << >> THEN b
    ELSE CallVisitorGenericVisit(CallVisitorVisit(b, Head(children)), Tail(children))

\* the loop of build_ccg over the files (lines 69-145): read_text is outside
\* the try blocks, so what it raises leaves build_ccg; a file that does not
\* parse is skipped
RECURSIVE BuildFiles(_, _, _)
BuildFiles(fs, files, g) ==
    IF files = << >> THEN Returned(g)
    ELSE LET f_resolved == Resolve(fs, Head(files))
             module == BuilderModule(f_resolved)
             at == EntriesAt(fs, f_resolved)
         IN  IF at = {} THEN Raised("IsADirectoryError")
             ELSE LET tree == (CHOOSE e \in at : TRUE).content
                  IN  IF ~tree.ok THEN BuildFiles(fs, Tail(files), g)
                      ELSE LET b == [nodes |-> g.nodes, edges |-> g.edges,
                                     module_name |-> module, current_fn |-> None]
                               b1 == RecordTopLevel(b, module, tree.body)
                               b2 == CallVisitorGenericVisit(b1, tree.body)
                           IN  BuildFiles(fs, Tail(files),
                                          [nodes |-> b2.nodes, edges |-> b2.edges])

\* build_ccg(path), path the root or a file below it
build_ccg(fs, path, scan) ==
    LET root == IF fs.exists \/ IsAbsolute(path) THEN path ELSE Cwd \o path
        r == BuildFiles(fs, iter_py_files(fs, root, scan), [nodes |-> {}, edges |-> << >>])
    IN  IF r.raised # "" THEN r
        ELSE Returned([nodes |-> SortedStrs(r.value.nodes), edges |-> r.value.edges])

(***************************************************************************)
(* The inputs: identifiers, file contents and file systems.                *)
(***************************************************************************)
nFoo == << "f", "o", "o" >>
nCaller == << "c", "a", "l", "l", "e", "r" >>
nModel == << "M", "o", "d", "e", "l" >>
nUse == << "u", "s", "e" >>
nChild == << "C", "h", "i", "l", "d" >>
nBase == << "B", "a", "s", "e" >>
nThing == << "T", "h", "i", "n", "g" >>
nA == << "A" >>
nB == << "B" >>
nRun == << "r", "u", "n" >>
nF == << "f" >>
nF2 == << "f", "2" >>
nG == << "g" >>
nH == << "h" >>
nZ == << "z" >>

\* def foo(): pass / def caller(): foo()
SrcFooCaller ==
    Parsed(<< FunctionDef(nFoo, << >>),
              FunctionDef(nCaller, << Call(Name(nFoo), << >>) >>) >>)

\* class Model: pass / def use(): Model()
SrcModelUse ==
    Parsed(<< ClassDef(nModel, << >>, << >>),
              FunctionDef(nUse, << Call(Name(nModel), << >>) >>) >>)

\* class Child(Base): pass / Thing()
SrcChildThing ==
    Parsed(<< ClassDef(nChild, << Name(nBase) >>, << >>),
              Call(Name(nThing), << >>) >>)

\* class A: def run(self): foo() / class B: def run(self): self.g()
SrcTwoRuns ==
    Parsed(<< ClassDef(nA, << >>, << FunctionDef(nRun, << Call(Name(nFoo), << >>) >>) >>),
              ClassDef(nB, << >>,
                  << FunctionDef(nRun,
                         << Call(Attribute(Name(<< "s", "e", "l", "f" >>), nG), << >>) >>) >>) >>)

\* def Model(): pass
SrcModelFactory == Parsed(<< FunctionDef(nModel, << >>) >>)

\* def f(): g() / def f2(): h()
SrcFAndF2 ==
    Parsed(<< FunctionDef(nF, << Call(Name(nG), << >>) >>),
              FunctionDef(nF2, << Call(Name(nH), << >>) >>) >>)

\* def z(): foo(); foo() / def caller(): foo()
SrcRepeatedCalls ==
    Parsed(<< FunctionDef(nZ, << Call(Name(nFoo), << >>), Call(Name(nFoo), << >>) >>),
              FunctionDef(nCaller, << Call(Name(nFoo), << >>) >>) >>)

\* def f(): pass / def g(): (def f(): h())
SrcNestedF ==
    Parsed(<< FunctionDef(nF, << >>),
              FunctionDef(nG, << FunctionDef(nF, << Call(Name(nH), << >>) >>) >>) >>)

\* class Base: pass / class Child(Base): pass
SrcBaseChild ==
    Parsed(<< ClassDef(nBase, << >>, << >>),
              ClassDef(nChild, << Name(nBase) >>, << >>) >>)

PyContents ==
    { SrcFooCaller, SrcModelUse, SrcChildThing, SrcTwoRuns, SrcModelFactory,
      SrcFAndF2, SrcRepeatedCalls, SrcNestedF, SrcBaseChild, Unparsable }

pA == << << "a", ".", "p", "y" >> >>
pB == << << "b", ".", "p", "y" >> >>
pDC == << << "d" >>, << "c", ".", "p", "y" >> >>

\* the Python files that may exist below the root
PyPaths == { pA, pB, pDC }

RootAbs == << Anchor, << "r" >> >>
RootRel == << << "r" >> >>

\* the entries of a file system whose paths are P: one choice of content per path
EntrySets(P, contents) ==
    {{FileEntry(r, c[r]) : r \in P} : c \in [P -> contents]}

\* the file systems the graph builder is run on
GraphFileSystems ==
    {[root |-> RootAbs, exists |-> TRUE, entries |-> es] :
        es \in UNION {EntrySets(P, PyContents) :
                         P \in {Q \in SUBSET PyPaths : Cardinality(Q) <= MaxFiles}}}

\* two files whose module ids differ in a separator only: d/c.py and d_c.py
pD_C == << << "d", "_", "c", ".", "p", "y" >> >>

SeparatorFileSystems ==
    {[root |-> RootAbs, exists |-> TRUE, entries |-> es] :
        es \in EntrySets({pDC, pD_C}, {SrcFooCaller, SrcModelFactory})}

pDE == << << "d", "-", "e", ".", "p", "y" >> >>
pMd == << << "n", ".", "m", "d" >> >>
pGit == << << ".", "g", "i", "t" >>, << "h", ".", "p", "y" >> >>
pLink == << << "l", ".", "p", "y" >> >>
\* what the symbolic link l.py points to, outside the root
LinkTarget == << Anchor, << "o" >>, << "z", ".", "p", "y" >> >>

\* the files that may exist below the root the collector is run on
CollectEntries ==
    {FileEntry(r, Parsed(<< >>)) : r \in {pA, pDC, pDE, pMd, pGit}}
        \cup {LinkEntry(pLink, LinkTarget, Parsed(<< >>))}

\* the file systems the collector is run on: a root given as an absolute path,
\* as a path relative to the working directory or not at all, and a root that
\* does not exist
CollectFileSystems ==
    {[root |-> r, exists |-> TRUE, entries |-> es] :
        r \in {RootAbs, RootRel, << >>},
        es \in {Q \in SUBSET CollectEntries : Cardinality(Q) <= MaxFiles}}
    \cup {[root |-> r, exists |-> FALSE, entries |-> {}] : r \in {RootAbs, RootRel}}

\* the extension lists the collector is called with: the default, one
\* extension, two disjoint ones, two that match the same files, and none
ExtLists ==
    { None, << sPy >>, << sPy, sMd >>, << sPy, << "y" >> >>, << >> }

\* the names the graph is queried with: a short name, a qualified name, a
\* fragment of a name, a name of nothing, and a name that is only called
QueryNames ==
    { nFoo, << "a", ".", "p", "y" >> \o sQual \o nFoo, << "f", "o" >>, << "q", "q" >>, nG }

nK == << "K" >>
nM == << "m" >>

\* def f(): (class K: g())
SrcClassInFunction ==
    Parsed(<< FunctionDef(nF, << ClassDef(nK, << >>, << Call(Name(nG), << >>) >>) >>) >>)

\* class A: (def m(self): foo()) ; h()
SrcMethodAndBody ==
    Parsed(<< ClassDef(nA, << >>,
                  << FunctionDef(nM, << Call(Name(nFoo), << >>) >>),
                     Call(Name(nH), << >>) >>) >>)

\* foo(g()) / def foo(): pass
SrcModuleCall ==
    Parsed(<< Call(Name(nFoo), << Call(Name(nG), << >>) >>), FunctionDef(nFoo, << >>) >>)

ScopeContents ==
    { SrcClassInFunction, SrcMethodAndBody, SrcModuleCall, SrcFooCaller, SrcTwoRuns,
      Unparsable }

\* the file systems of the builds that look at the nesting of call sites
ScopeFileSystems ==
    {[root |-> RootAbs, exists |-> TRUE, entries |-> es] :
        es \in UNION {EntrySets(P, ScopeContents) :
                         P \in {Q \in SUBSET PyPaths : Cardinality(Q) <= MaxFiles}}}

\* the name of the i-th file of the large root: f001.py, f002.py, ...
LargeName(i) ==
    LET digit(d) == << "0", "1", "2", "3", "4", "5", "6", "7", "8", "9" >>[d + 1]
    IN  << "f", digit(i \div 100), digit((i \div 10) % 10), digit(i % 10) >> \o sPy

\* a root with one file more than ccg_to_mermaid shows nodes, the files empty
LargeFileSystem ==
    [root |-> RootAbs, exists |-> TRUE,
     entries |-> {FileEntry(<< LargeName(i) >>, Parsed(<< >>)) :
                     i \in 1..(MaxNodesDefault + 1)}]

\* the graph analyze_ccg returns for the large root: a module node per file
LargeGraph ==
    [nodes |-> [i \in 1..(MaxNodesDefault + 1) |->
                   Node(sMod \o LargeName(i), "module", LargeName(i), None, None,
                        PathStr(RootAbs \o << LargeName(i) >>))],
     edges |-> << >>,
     meta |-> [files_analyzed |-> MaxNodesDefault + 1]]

\* a file in a directory whose name ends in .py
pKA == << << "k", ".", "p", "y" >>, << "a", ".", "p", "y" >> >>

\*   # TODO: fix
\*   async def g(): pass
\*   def foo():
\*    "foo doc"
TxtAsyncFoo ==
    Source(
        << "#", " ", "T", "O", "D", "O", ":", " ", "f", "i", "x", "\n", "a", "s", "y",
        "n", "c", " ", "d", "e", "f", " ", "g", "(", ")", ":", " ", "p", "a", "s", "s",
        "\n", "d", "e", "f", " ", "f", "o", "o", "(", ")", ":", "\n", " ", "\"", "f",
        "o", "o", " ", "d", "o", "c", "\"", "\n" >>,
        Parsed(<< AsyncFunctionDef(<< "g" >>, << Stmt(<< >>) >>), FunctionDef(<< "f",
        "o", "o" >>, << StrExpr(<< "f", "o", "o", " ", "d", "o", "c" >>) >>) >>))

\*   class A:
\*    " d"
\*    def m(self): pass
\*   def f():
\*    def h(): pass
\*   #todo
\*   # TODO- a TODO b
TxtClassNested ==
    Source(
        << "c", "l", "a", "s", "s", " ", "A", ":", "\n", " ", "\"", " ", "d", "\"",
        "\n", " ", "d", "e", "f", " ", "m", "(", "s", "e", "l", "f", ")", ":", " ",
        "p", "a", "s", "s", "\n", "d", "e", "f", " ", "f", "(", ")", ":", "\n", " ",
        "d", "e", "f", " ", "h", "(", ")", ":", " ", "p", "a", "s", "s", "\n", "#",
        "t", "o", "d", "o", "\n", "#", " ", "T", "O", "D", "O", "-", " ", "a", " ",
        "T", "O", "D", "O", " ", "b", "\n" >>,
        Parsed(<< ClassDef(<< "A" >>, << >>, << StrExpr(<< " ", "d" >>),
        FunctionDef(<< "m" >>, << Stmt(<< >>) >>) >>), FunctionDef(<< "f" >>,
        << FunctionDef(<< "h" >>, << Stmt(<< >>) >>) >>) >>))

\*   x = TODOS
\*   mytodo()
TxtNoMarker ==
    Source(
        << "x", " ", "=", " ", "T", "O", "D", "O", "S", "\n", "m", "y", "t", "o", "d",
        "o", "(", ")", "\n" >>,
        Parsed(<< Stmt(<< >>), Call(Name(<< "m", "y", "t", "o", "d", "o" >>),
        << >>) >>))

\*   def f(:
\*   # TODO
TxtBroken ==
    Source(
        << "d", "e", "f", " ", "f", "(", ":", "\n", "#", " ", "T", "O", "D", "O",
        "\n" >>,
        Unparsable)

\*   TODO: a
\*
\*   to do; TODO b
TxtReadme ==
    Source(
        << "T", "O", "D", "O", ":", " ", "a", "\n", "\n", "t", "o", " ", "d", "o", ";",
        " ", "T", "O", "D", "O", " ", "b", "\n" >>,
        Unparsable)

\*   if x:
\*    def c(): ""
TxtIfDef ==
    Source(
        << "i", "f", " ", "x", ":", "\n", " ", "d", "e", "f", " ", "c", "(", ")", ":",
        " ", "\"", "\"", "\n" >>,
        Parsed(<< Stmt(<< FunctionDef(<< "c" >>, << StrExpr(<< >>) >>) >>) >>))

TextContents ==
    { TxtAsyncFoo, TxtClassNested, TxtNoMarker, TxtBroken, TxtReadme, TxtIfDef }

\* the file systems the extractors and analyze_path are run on: every file
\* with its text, and a root that does not exist
AnalyzeFileSystems ==
    {[root |-> RootAbs, exists |-> TRUE, entries |-> es] :
        es \in UNION {EntrySets(P, TextContents) :
                         P \in {Q \in SUBSET {pA, pMd, pDC, pKA} : Cardinality(Q) <= MaxFiles}}}
    \cup {[root |-> RootAbs, exists |-> FALSE, entries |-> {}]}

pReadmeMd == << << "R", "E", "A", "D", "M", "E", ".", "m", "d" >> >>
pSubReadme == << << "d" >>, << "r", "e", "a", "d", "m", "e" >> >>
pDashReadme == << << "d", "-", "e" >>, << "R", "E", "A", "D", "M", "E" >> >>

\*   (two empty lines)
\*    b
\*   c
\*
\*   d
TxtLeadingBlank ==
    Source(<< "\n", "\n", "\n", " ", "b", "\n", "c", "\n", "\n", "d", "\n" >>, Unparsable)

\* an empty file
TxtEmpty == Source(<< >>, Unparsable)

ReadmeContents == { TxtReadme, TxtLeadingBlank, TxtEmpty, TxtNoMarker }

\* the file systems the project summary is made of: READMEs at the root and
\* in directories whose names sort differently as strings and as paths, a
\* Python file, the root given as an absolute path, as a path relative to the
\* working directory or as the empty string, and a root that does not exist
SummaryFileSystems ==
    {[root |-> r, exists |-> TRUE, entries |-> es] :
        r \in {RootAbs, RootRel, << >>},
        es \in UNION {EntrySets(P, ReadmeContents) :
                         P \in {Q \in SUBSET {pReadmeMd, pSubReadme, pDashReadme, pA} :
                                   Cardinality(Q) <= MaxFiles}}}
    \cup {[root |-> r, exists |-> FALSE, entries |-> {}] : r \in {RootAbs, RootRel}}

\* at most this many calls of clone_repo are made
MaxClones == 3

\* the URLs clone_repo is called with: a repository x, the same with a
\* trailing slash, a URL that has no last component, a blank and an empty one
UrlX == << "h", "/", "x" >>
UrlXSlash == << "h", "/", "x", "/" >>
UrlSlash == << "/" >>
UrlBlank == << " " >>
Urls == { UrlX, UrlXSlash, UrlSlash, UrlBlank, << >> }

\* the values of the environment variable REPO_URL: unset, or a URL
EnvUrls == { << >>, UrlX }

\* the seconds at which the calls are made (strftime("%Y%m%d%H%M%S"))
Stamp(k) ==
    << "2", "0", "2", "6", "1", "1", "0", "1", "0", "0", "0", "0", "0",
       << "0", "1", "2" >>[k + 1] >>
Clock == 1..2

\* two of the 16^6 values of uuid4().hex[:6]
HexSuffixes == { << "0", "0", "0", "0", "0", "0" >>, << "a", "b", "c", "1", "2", "3" >> }

EmptyDisk == [parent |-> FALSE, dirs |-> {}]

\* what may lie at dest_parent before the first call: nothing, the empty
\* directory, or a directory x with files of its own
InitialDisks ==
    { EmptyDisk, [parent |-> TRUE, dirs |-> {}],
      [parent |-> TRUE, dirs |-> {[name |-> << "x" >>, holds |-> "data"]}] }

\* def f(): (def g(): pass) ; h()
SrcCallAfterNested ==
    Parsed(<< FunctionDef(nF, << FunctionDef(nG, << >>), Call(Name(nH), << >>) >>) >>)

\* def f(): (class K: (def m(self): pass) ; h())
SrcCallAfterMethod ==
    Parsed(<< FunctionDef(nF,
                  << ClassDef(nK, << >>,
                         << FunctionDef(nM, << >>), Call(Name(nH), << >>) >>) >>) >>)

BuilderContents ==
    { SrcFooCaller, SrcChildThing, SrcTwoRuns, SrcClassInFunction, SrcCallAfterNested,
      SrcCallAfterMethod, Unparsable }

\* a clone made by clone_repo, as a path relative to the working directory
RootClone == DestParent \o << << "x" >> >>

\* the roots build_ccg is run on: an absolute one outside the working
\* directory, a relative one, a clone, and a root that does not exist
BuilderFileSystems ==
    {[root |-> root, exists |-> TRUE, entries |-> es] :
        root \in {RootAbs, RootRel, RootClone},
        es \in UNION {EntrySets(P, BuilderContents) :
                         P \in {Q \in SUBSET {pA, pDC, pKA, pGit} : Cardinality(Q) <= MaxFiles}}}
    \cup {[root |-> RootRel, exists |-> FALSE, entries |-> {}]}

(***************************************************************************)
(* The state: the file system, and what the caller holds of the results of *)
(* the calls made so far.                                                  *)
(***************************************************************************)
VARIABLES
    fs,        \* the file system
    files,     \* the last call of find_code_files: its exts and its result
    ccg,       \* the graph the last analyze_ccg returned
    prev,      \* the graph the analyze_ccg before that returned
    builds,    \* how many times analyze_ccg has run
    callers,   \* the last call of find_callers: its target and its result
    callees,   \* the last call of find_callees: its source and its result
    defs,      \* the last call of extract_top_level_defs_py: its path and its result
    analysis,  \* the last call of analyze_path: its result
    mermaid,   \* the last call of ccg_to_mermaid: its graph and its result
    summary,   \* the last call of generate_project_summary: what it returned or raised
    disk,      \* the directories at dest_parent
    cloned,    \* the last call of clone_repo: the disk before it, and what it did
    built      \* the last call of build_ccg: its path, and what it returned or raised

\* what the caller holds of the helpers around the graph builder
helpers == << defs, analysis, mermaid, summary, disk, cloned, built >>

vars == << fs, files, ccg, prev, builds, callers, callees, helpers >>

NoCall == [called |-> FALSE, arg |-> << >>, result |-> << >>]

NoSummary == [called |-> FALSE, raised |-> "", value |-> << >>]

NoBuilt == [called |-> FALSE, arg |-> << >>, raised |-> "", value |-> << >>]

NoClone ==
    [called |-> FALSE, calls |-> 0, now |-> 1, before |-> EmptyDisk, repo_name |-> << >>,
     dest |-> << >>, raised |-> "", value |-> << >>]

InitResults ==
    /\ files = NoCall
    /\ ccg = EmptyCcg
    /\ prev = EmptyCcg
    /\ builds = 0
    /\ callers = NoCall
    /\ callees = NoCall
    /\ defs = NoCall
    /\ analysis = NoCall
    /\ mermaid = NoCall
    /\ summary = NoSummary
    /\ disk = EmptyDisk
    /\ cloned = NoClone
    /\ built = NoBuilt

Init ==
    /\ fs \in GraphFileSystems
    /\ InitResults

\* one scan order for every list of files the scan orders can make
\* find_code_files return: analyze_ccg reads the scan through that list only
DistinctScans ==
    LET lists == {PyFiles(fs, sc) : sc \in ScanOrders(fs)}
    IN  {CHOOSE sc \in ScanOrders(fs) : PyFiles(fs, sc) = l : l \in lists}

\* ccg = analyze_ccg(root)
AnalyzeCcg ==
    /\ builds < MaxBuilds
    /\ \E scan \in DistinctScans :
         \E order \in IterOrders(VisitorsOf(fs, scan)) :
            ccg' = analyze_ccg(fs, scan, order)
    /\ prev' = ccg
    /\ builds' = builds + 1
    /\ UNCHANGED << fs, files, callers, callees, helpers >>

\* analyze_ccg run once on the root
AnalyzeOnce ==
    /\ builds = 0
    /\ AnalyzeCcg

\* callers = find_callers(ccg, t)
FindCallers ==
    /\ builds > 0
    /\ \E t \in QueryNames :
         callers' = [called |-> TRUE, arg |-> t, result |-> find_callers(ccg, t)]
    /\ UNCHANGED << fs, files, ccg, prev, builds, callees, helpers >>

\* callees = find_callees(ccg, s), s a name or a node id find_callers returned
FindCallees ==
    /\ builds > 0
    /\ \E s \in QueryNames \cup {callers.result[i].node_id : i \in 1..Len(callers.result)} :
         callees' = [called |-> TRUE, arg |-> s, result |-> find_callees(ccg, s)]
    /\ UNCHANGED << fs, files, ccg, prev, builds, callers, helpers >>

\* files = find_code_files(root, exts)
FindCodeFiles ==
    /\ \E exts \in ExtLists :
         \E scan \in ScanOrders(fs) :
            files' = [called |-> TRUE, arg |-> exts,
                      result |-> find_code_files(fs, exts, scan)]
    /\ UNCHANGED << fs, ccg, prev, builds, callers, callees, helpers >>

\* defs = extract_top_level_defs_py(p), p a file or a directory below the root
\* or a path that does not exist
ExtractDefs ==
    /\ \E p \in {RootPath(fs) \o r : r \in RelPathsOf(fs) \cup {pB}} :
         defs' = [called |-> TRUE, arg |-> p, result |-> extract_top_level_defs_py(fs, p)]
    /\ UNCHANGED << fs, files, ccg, prev, builds, callers, callees, analysis, mermaid, summary,
                    disk, cloned, built >>

\* one scan order for every list of files the scan orders can make
\* find_code_files return: analyze_path reads the scan through that list only
AnalyzeScans ==
    LET lists == {find_code_files(fs, None, sc) : sc \in ScanOrders(fs)}
    IN  {CHOOSE sc \in ScanOrders(fs) : find_code_files(fs, None, sc) = l : l \in lists}

\* analysis = analyze_path(root), run once on the root
AnalyzePath ==
    /\ ~analysis.called
    /\ \E scan \in AnalyzeScans :
         analysis' = [called |-> TRUE, arg |-> fs.root, result |-> analyze_path(fs, scan)]
    /\ UNCHANGED << fs, files, ccg, prev, builds, callers, callees, defs, mermaid, summary,
                    disk, cloned, built >>

\* mermaid = ccg_to_mermaid(ccg)
CcgToMermaid ==
    /\ builds > 0
    /\ mermaid' = [called |-> TRUE, arg |-> ccg,
                   result |-> ccg_to_mermaid(ccg, MaxNodesDefault)]
    /\ UNCHANGED << fs, files, ccg, prev, builds, callers, callees, defs, analysis, summary,
                    disk, cloned, built >>

\* summary = generate_project_summary(root)
GenerateProjectSummary ==
    /\ LET r == generate_project_summary(fs)
       IN  summary' = [called |-> TRUE, raised |-> r.raised, value |-> r.value]
    /\ UNCHANGED << fs, files, ccg, prev, builds, callers, callees, defs, analysis, mermaid,
                    disk, cloned, built >>

\* cloned = clone_repo(url), made at a second not before that of the last call
CloneRepo ==
    /\ cloned.calls < MaxClones
    /\ \E url \in Urls, env \in EnvUrls, now \in Clock, suffix \in HexSuffixes,
          git \in GitOutcomes, removed \in BOOLEAN :
         /\ now >= cloned.now
         /\ LET r == clone_repo(disk, url, env, Stamp(now), suffix, git, removed)
            IN  /\ disk' = r.disk
                /\ cloned' = [called |-> TRUE, calls |-> cloned.calls + 1, now |-> now,
                              before |-> disk, repo_name |-> r.repo_name, dest |-> r.dest,
                              raised |-> r.raised, value |-> r.value]
    /\ UNCHANGED << fs, files, ccg, prev, builds, callers, callees, defs, analysis, mermaid,
                    summary, built >>

\* built = build_ccg(path), path the root or a file below it
BuildCcg ==
    /\ \E path \in {fs.root} \cup {fs.root \o e.rel : e \in fs.entries} :
         \E scan \in ScanOrders(fs) :
            LET r == build_ccg(fs, path, scan)
            IN  built' = [called |-> TRUE, arg |-> path, raised |-> r.raised,
                          value |-> r.value]
    /\ UNCHANGED << fs, files, ccg, prev, builds, callers, callees, defs, analysis, mermaid,
                    summary, disk, cloned >>

\* the graph builder alone
Next == AnalyzeCcg

Spec == Init /\ [][Next]_vars

\* one build, then queries
NextQuery == AnalyzeOnce \/ FindCallers \/ FindCallees

SpecQuery == Init /\ [][NextQuery]_vars

\* the file collector alone
InitCollect ==
    /\ fs \in CollectFileSystems
    /\ InitResults

NextCollect == FindCodeFiles

SpecCollect == InitCollect /\ [][NextCollect]_vars

\* the graph builder on files with nested call sites
InitScope ==
    /\ fs \in ScopeFileSystems
    /\ InitResults

NextScope == AnalyzeCcg

SpecScope == InitScope /\ [][NextScope]_vars

\* one build, then the diagram; the root is one of those of the graph builder,
\* one with d/c.py and d_c.py, or the large root after its build
InitRender ==
    /\ files = NoCall /\ prev = EmptyCcg /\ callers = NoCall /\ callees = NoCall
    /\ defs = NoCall /\ analysis = NoCall /\ mermaid = NoCall
    /\ summary = NoSummary /\ disk = EmptyDisk /\ cloned = NoClone /\ built = NoBuilt
    /\ \/ fs \in GraphFileSystems \cup SeparatorFileSystems /\ ccg = EmptyCcg /\ builds = 0
       \/ fs = LargeFileSystem /\ ccg = LargeGraph /\ builds = 1

NextRender == AnalyzeOnce \/ CcgToMermaid

SpecRender == InitRender /\ [][NextRender]_vars

\* the extractors and analyze_path
InitAnalyze ==
    /\ fs \in AnalyzeFileSystems
    /\ InitResults

NextAnalyze == ExtractDefs \/ AnalyzePath

SpecAnalyze == InitAnalyze /\ [][NextAnalyze]_vars

\* one build and the symbol extractor, on the files with their text
InitAgree ==
    /\ fs \in AnalyzeFileSystems
    /\ InitResults

NextAgree == AnalyzeOnce \/ ExtractDefs

SpecAgree == InitAgree /\ [][NextAgree]_vars

\* the project summary alone
InitSummary ==
    /\ fs \in SummaryFileSystems
    /\ InitResults

NextSummary == GenerateProjectSummary

SpecSummary == InitSummary /\ [][NextSummary]_vars

\* clone_repo alone
InitClone ==
    /\ fs = [root |-> RootAbs, exists |-> FALSE, entries |-> {}]
    /\ files = NoCall /\ ccg = EmptyCcg /\ prev = EmptyCcg /\ builds = 0
    /\ callers = NoCall /\ callees = NoCall
    /\ defs = NoCall /\ analysis = NoCall /\ mermaid = NoCall /\ summary = NoSummary
    /\ cloned = NoClone /\ built = NoBuilt
    /\ disk \in InitialDisks

NextClone == CloneRepo

SpecClone == InitClone /\ [][NextClone]_vars

\* build_ccg alone
InitBuilder ==
    /\ fs \in BuilderFileSystems
    /\ InitResults

NextBuilder == BuildCcg

SpecBuilder == InitBuilder /\ [][NextBuilder]_vars

(***************************************************************************)
(* Helpers of the properties.                                              *)
(***************************************************************************)
EdgeTypes(g) == {g.edges[i].type : i \in 1..Len(g.edges)}

NodeTypes(g) == {g.nodes[i].type : i \in 1..Len(g.nodes)}

\* how often the edge e occurs in the edge list of g
EdgeCount(g, e) == Cardinality({i \in 1..Len(g.edges) : g.edges[i] = e})

\* the same multiset of edges
SameEdgeBag(g, h) ==
    \A e \in Range(g.edges) \cup Range(h.edges) : EdgeCount(g, e) = EdgeCount(h, e)

\* the file system without the files that do not parse
ParsableOnly(f) == [f EXCEPT !.entries = {e \in @ : e.content.ok}]

\* the graph of a file system, one scan order and one iteration order chosen
SomeGraph(f) ==
    LET scan == CHOOSE sc \in ScanOrders(f) : TRUE
        order == CHOOSE o \in IterOrders(VisitorsOf(f, scan)) : TRUE
    IN  analyze_ccg(f, scan, order)

\* the number of function and class definitions in a list of statements,
\* nested ones included
RECURSIVE DefCount(_)
DefCount(body) ==
    IF body = << >> THEN 0
    ELSE (IF Head(body).kind \in {"FunctionDef", "AsyncFunctionDef", "ClassDef"} THEN 1 ELSE 0)
         + DefCount(Head(body).body) + DefCount(Tail(body))

\* the (class, base) pairs the class statements of a list of statements declare
RECURSIVE DeclaredBases(_)
DeclaredBases(body) ==
    IF body = << >> THEN {}
    ELSE LET n == Head(body)
         IN  (IF n.kind = "ClassDef"
              THEN {<< n.name, BaseName(n.bases[i]) >> : i \in 1..Len(n.bases)}
              ELSE {})
             \cup DeclaredBases(n.body) \cup DeclaredBases(Tail(body))

\* the parsed files with the module name analyze_ccg gives them
ParsedModules ==
    {[module |-> module_name_from_path(fs, RootPath(fs) \o e.rel), body |-> e.content.body] :
        e \in {x \in fs.entries : x.content.ok /\ EndsWith(x.rel[Len(x.rel)], sPy)}}

\* the ids of the nodes of g of the given type and (short) name
IdsNamed(g, types, name) ==
    {g.nodes[i].id : i \in {i \in 1..Len(g.nodes) :
                               g.nodes[i].type \in types /\ g.nodes[i].name = name}}

(***************************************************************************)
(* The properties.                                                         *)
(***************************************************************************)

\* C1: in the graph analyze_ccg returns, the 'from' and the 'to' of every edge
\* (defines, inherits, calls, instantiates) is a key of the graph's nodes.
NoDanglingEdge ==
    \A i \in 1..Len(ccg.edges) :
        /\ ccg.edges[i].from \in NodeIds(ccg.nodes)
        /\ ccg.edges[i].to \in NodeIds(ccg.nodes)

\* C1 witness: a graph with edges of all four types, some ending in placeholders
\* of unresolved calls, instantiations and bases.
AllEdgeTypesBuilt ==
    /\ builds > 0
    /\ EdgeTypes(ccg) = {"defines", "inherits", "calls", "instantiates"}
    /\ {"unresolved", "unresolved_class", "base"} \subseteq NodeTypes(ccg)

\* C2: two runs of analyze_ccg on the same root and file contents return the
\* same set of node ids and the same multiset of edges, whatever the orders the
\* directory scan and the sets of function and class names are iterated in.
BuildDeterministic ==
    builds >= 2 =>
        /\ NodeIds(ccg.nodes) = NodeIds(prev.nodes)
        /\ SameEdgeBag(ccg, prev)

\* C2 witness: two runs on the same files that iterated in different orders, so
\* that their edge lists differ as lists.
TwoRunsDifferentOrder ==
    /\ builds >= 2
    /\ ccg.edges # prev.edges
    /\ "calls" \in EdgeTypes(ccg)

\* C3: a file that does not parse contributes no node and no edge, not even a
\* module node, and the graph holds exactly the nodes and edges the files that
\* parse produce when the root is built without it.
UnparsableSkipped ==
    builds > 0 =>
        LET g == SomeGraph(ParsableOnly(fs))
        IN  /\ Range(ccg.nodes) = Range(g.nodes)
            /\ SameEdgeBag(ccg, g)

\* C3 witness: a root with a file that does not parse next to a file that
\* does, whose definitions and calls are in the graph.
BuiltNextToUnparsable ==
    /\ builds > 0
    /\ \E e \in fs.entries : ~e.content.ok
    /\ {"defines", "calls"} \subseteq EdgeTypes(ccg)

\* C4, as claimed: for every class C that declares a base B the graph has an
\* 'inherits' edge from a node of the base B to the class node of C.
InheritsBaseToSubclass ==
    builds > 0 =>
        \A m \in ParsedModules :
            \A d \in DeclaredBases(m.body) :
                \E i \in 1..Len(ccg.edges) :
                    /\ ccg.edges[i].type = "inherits"
                    /\ ccg.edges[i].from \in IdsNamed(ccg, {"base", "class"}, d[2])
                    /\ ccg.edges[i].to = sClass \o m.module \o sQual \o d[1]

\* C5, as claimed: every call of a capitalised name also yields an
\* 'instantiates' edge from the same origin, and when a class of that name is
\* defined in the analysed files the edge ends in the class node of a class of
\* that name.
InstantiatesTargetsClass ==
    builds > 0 =>
        /\ \A i \in 1..Len(ccg.edges) :
              (ccg.edges[i].type = "calls"
                  /\ Head(NodeInfo(ccg, ccg.edges[i].to).name) \in UpperCase)
              => \E j \in 1..Len(ccg.edges) :
                    /\ ccg.edges[j].type = "instantiates"
                    /\ ccg.edges[j].from = ccg.edges[i].from
        /\ \A i \in 1..Len(ccg.edges) :
              LET e == ccg.edges[i]
                  classes == IdsNamed(ccg, {"class"}, NodeInfo(ccg, e.to).name)
              IN  (e.type = "instantiates" /\ classes # {}) => e.to \in classes

\* C6, as claimed: two different definitions never share a node, so every
\* module has as many function and class nodes as its file has function and
\* class definitions, nested ones included.
OneNodePerDefinition ==
    builds > 0 =>
        \A m \in ParsedModules :
            Cardinality({i \in 1..Len(ccg.nodes) :
                            /\ ccg.nodes[i].type \in {"function", "class"}
                            /\ ccg.nodes[i].module = m.module})
                = DefCount(m.body)

\* C7, as claimed: every node find_callers returns is the 'from' of a 'calls'
\* edge whose target node has the queried name as its qualified name or as its
\* short name.
CallersMatchExactly ==
    callers.called =>
        \A k \in 1..Len(callers.result) :
            \E i \in 1..Len(ccg.edges) :
                /\ ccg.edges[i].type = "calls"
                /\ ccg.edges[i].from = callers.result[k].node_id
                /\ \/ NodeInfo(ccg, ccg.edges[i].to).qualname = callers.arg
                   \/ NodeInfo(ccg, ccg.edges[i].to).name = callers.arg

\* C8, as claimed: the results of find_callers and find_callees are strictly
\* increasing sequences of node ids.
QueryResultsSorted ==
    /\ \A k \in 1..(Len(callers.result) - 1) :
          StrLess(callers.result[k].node_id, callers.result[k + 1].node_id)
    /\ \A k \in 1..(Len(callees.result) - 1) :
          StrLess(callees.result[k].to, callees.result[k + 1].to)

\* C9, as claimed: for each node id c that find_callers(g, t) returns and each
\* target d that find_callees(g, c) returns, g has a 'calls' edge from c to d.
QueriesInventNoEdge ==
    (/\ callers.called
     /\ callees.called
     /\ callees.arg \in {callers.result[k].node_id : k \in 1..Len(callers.result)})
    => \A k \in 1..Len(callees.result) :
          \E i \in 1..Len(ccg.edges) :
              /\ ccg.edges[i].type = "calls"
              /\ ccg.edges[i].from = callees.arg
              /\ ccg.edges[i].to = callees.result[k].to

\* C10: find_code_files returns absolute paths, each at most once, in the
\* increasing order of paths, for every root and every list of extensions; a
\* root that does not exist yields the empty sequence.
CollectedSortedUnique ==
    files.called =>
        /\ \A k \in 1..Len(files.result) : IsAbsolute(files.result[k])
        /\ \A k \in 1..(Len(files.result) - 1) :
              PathLess(files.result[k], files.result[k + 1])
        /\ ~fs.exists => files.result = << >>

\* C10 witness: a root given relative to the working directory, two extensions
\* that match the same two files, and both files returned.
CollectedOverlappingExts ==
    /\ files.called
    /\ fs.root = RootRel
    /\ files.arg = << sPy, << "y" >> >>
    /\ Len(files.result) = 2

\* the directory names the file collector is specified to leave out
NoiseDirs ==
    { << ".", "g", "i", "t" >>, << "e", "n", "v" >>, << "v", "e", "n", "v" >>,
      << ".", "v", "e", "n", "v" >>, << "t", "m", "p", "_", "c", "l", "o", "n", "e", "s" >>,
      << "_", "_", "p", "y", "c", "a", "c", "h", "e", "_", "_" >> }

\* the directories of the path p below the root of fs ({} for a path elsewhere)
DirsBelowRoot(p) ==
    LET base == Resolve(fs, RootPath(fs))
    IN  IF Len(p) > Len(base) /\ SubSeq(p, 1, Len(base)) = base
        THEN {p[k] : k \in (Len(base) + 1)..(Len(p) - 1)}
        ELSE {}

\* C11, as claimed: find_code_files returns no file that lies under a noise
\* directory (.git, env, venv, .venv, tmp_clones, __pycache__) below the root.
NoNoiseFileCollected ==
    files.called =>
        \A k \in 1..Len(files.result) :
            DirsBelowRoot(files.result[k]) \cap NoiseDirs = {}

\* the function and class definitions that are statements of the module
ModuleDefs(body) ==
    SelectSeq(body, LAMBDA n : n.kind \in {"FunctionDef", "AsyncFunctionDef", "ClassDef"})

\* the docstring of a definition without the indentation, << >> when it has none
DocText(node) ==
    IF node.body # << >> /\ Head(node.body).kind = "Expr"
    THEN LStrip(Head(node.body).value)
    ELSE << >>

\* C12, as claimed: extract_top_level_defs_py returns, in source order, exactly
\* one entry per function definition and per class definition at module scope,
\* with its docstring or the empty string, and nothing for a nested definition;
\* for a path that is no .py file or does not parse it returns the empty list.
TopLevelDefsExact ==
    defs.called =>
        LET at == EntriesAt(fs, defs.arg)
            e == CHOOSE x \in at : TRUE
            expected == IF at # {} /\ EndsWith(defs.arg[Len(defs.arg)], sPy) /\ e.content.ok
                        THEN ModuleDefs(e.content.body)
                        ELSE << >>
        IN  /\ Len(defs.result) = Len(expected)
            /\ \A k \in 1..Len(expected) :
                  /\ defs.result[k].name = expected[k].name
                  /\ defs.result[k].type =
                        (IF expected[k].kind = "ClassDef" THEN "class" ELSE "function")
                  /\ defs.result[k].doc = DocText(expected[k])

\* the collected files of the file system: what has a name with one of the
\* default extensions, links followed
CollectedByDefault ==
    IF ~fs.exists THEN {}
    ELSE {Resolve(fs, RootPath(fs) \o r) :
            r \in {q \in RelPathsOf(fs) :
                      \E i \in 1..Len(DefaultExts) : EndsWith(q[Len(q)], DefaultExts[i])}}

RECURSIVE SumLen(_, _)
SumLen(entries, field) ==
    IF entries = << >> THEN 0
    ELSE Len(Head(entries)[field]) + SumLen(Tail(entries), field)

\* C13: the result of analyze_path has one entry per collected file,
\* summary.todo_count is the sum of the lengths of the 'todos' lists and
\* summary.python_defs the sum of the lengths of the 'py_defs' lists, and
\* todo_count is at least 1 when a collected file holds the word TODO.
AnalysisSumsUp ==
    analysis.called =>
        LET r == analysis.result
        IN  /\ {r.files[k].path : k \in 1..Len(r.files)} = {PathStr(p) : p \in CollectedByDefault}
            /\ Len(r.files) = Cardinality(CollectedByDefault)
            /\ r.summary.todo_count = SumLen(r.files, "todos")
            /\ r.summary.python_defs = SumLen(r.files, "py_defs")
            /\ (\E p \in CollectedByDefault : \E e \in EntriesAt(fs, p) :
                   \E i \in 1..Len(e.content.text) : TodoAt(e.content.text, i))
               => r.summary.todo_count >= 1

\* C13 witness: an analysis of two files, one of them with two TODOs, with
\* three TODOs and a definition counted.
AnalysisOfTodosAndDefs ==
    /\ analysis.called
    /\ Len(analysis.result.files) = 2
    /\ \E k \in 1..2 : Len(analysis.result.files[k].todos) = 2
    /\ analysis.result.summary.todo_count = 3
    /\ analysis.result.summary.python_defs >= 1

\* the names the calls in a list of statements resolve to (visit_Call)
RECURSIVE CalledNames(_)
CalledNames(body) ==
    IF body = << >> THEN {}
    ELSE LET n == Head(body)
         IN  (IF n.kind = "Call" /\ Truthy(CallName(n.func)) THEN {CallName(n.func)} ELSE {})
             \cup CalledNames(n.body) \cup CalledNames(Tail(body))

\* the positions in the node set of the nodes of the given types whose name or
\* qualified name is key
Matching(g, types, key) ==
    {k \in 1..Len(g.nodes) :
        /\ g.nodes[k].type \in types
        /\ g.nodes[k].name = key \/ g.nodes[k].qualname = key}

\* C17: a 'calls' edge ends in the placeholder fn:unresolved::N of the called
\* name N if and only if no module, definition or base node of the graph has N
\* as its name or qualified name (the placeholders of unresolved calls
\* themselves aside); otherwise it ends in the node inserted first among the
\* nodes that have N as name or qualified name.  The called names are those of
\* the calls in the files.
CallsResolveFirstMatch ==
    builds > 0 =>
        /\ \A i \in 1..Len(ccg.edges) :
              ccg.edges[i].type = "calls" =>
                  LET t == NodeInfo(ccg, ccg.edges[i].to)
                      known == Matching(ccg, {"module", "function", "class", "base"}, t.name)
                      all == Matching(ccg, {"module", "function", "class", "base",
                                            "unresolved", "unresolved_class"}, t.name)
                  IN  /\ t.type = "unresolved" <=> known = {}
                      /\ t.type = "unresolved" => t.id = sFnUnresolved \o t.name
                      /\ t.id = ccg.nodes[CHOOSE k \in all : \A j \in all : k <= j].id
        /\ {NodeInfo(ccg, ccg.edges[i].to).name :
               i \in {j \in 1..Len(ccg.edges) : ccg.edges[j].type = "calls"}}
           = UNION {CalledNames(m.body) : m \in ParsedModules}

\* C17 witness: a graph of two files in which a call ends in the placeholder
\* of an unresolved name and a call of the second file ends in a function of
\* the first.
CallsResolvedAndUnresolved ==
    /\ builds > 0
    /\ \E i \in 1..Len(ccg.edges) :
          /\ ccg.edges[i].type = "calls"
          /\ NodeInfo(ccg, ccg.edges[i].to).type = "unresolved"
    /\ \E i \in 1..Len(ccg.edges) :
          /\ ccg.edges[i].type = "calls"
          /\ NodeInfo(ccg, ccg.edges[i].to).type = "function"
          /\ NodeInfo(ccg, ccg.edges[i].from).module
                # NodeInfo(ccg, ccg.edges[i].to).module

\* the pairs (node id of the origin, called name) of the calls in a list of
\* statements, owner being the node id of the nearest definition around the
\* list (the module node at module scope)
RECURSIVE CallSites(_, _, _)
CallSites(module, owner, body) ==
    IF body = << >> THEN {}
    ELSE LET n == Head(body)
             inner == IF n.kind \in {"FunctionDef", "AsyncFunctionDef"}
                      THEN sFn \o module \o sQual \o n.name
                      ELSE IF n.kind = "ClassDef" THEN sClass \o module \o sQual \o n.name
                      ELSE owner
         IN  (IF n.kind = "Call" /\ Truthy(CallName(n.func))
              THEN {<< owner, CallName(n.func) >>} ELSE {})
             \cup CallSites(module, inner, n.body)
             \cup CallSites(module, owner, Tail(body))

\* C18, as claimed: the origin of every 'calls' edge is the node of the nearest
\* function or class around the call, the module node at module scope, for
\* classes in functions and functions in classes alike.
CallOriginNearestEnclosing ==
    builds > 0 =>
        {<< ccg.edges[i].from, NodeInfo(ccg, ccg.edges[i].to).name >> :
            i \in {j \in 1..Len(ccg.edges) : ccg.edges[j].type = "calls"}}
        = UNION {CallSites(m.module, sMod \o m.module, m.body) : m \in ParsedModules}

\* C19, as claimed: a placeholder node of type base exists for a name B only
\* if no definition named B is in the node set, and the 'inherits' edge of a
\* class whose declared base B is a class defined in the files is attached to
\* the class node of B.
BasePlaceholderOnlyIfUndefined ==
    builds > 0 =>
        /\ \A k \in 1..Len(ccg.nodes) :
              ccg.nodes[k].type = "base" =>
                  IdsNamed(ccg, {"function", "class"}, ccg.nodes[k].name) = {}
        /\ \A m \in ParsedModules :
              \A d \in DeclaredBases(m.body) :
                  IdsNamed(ccg, {"class"}, d[2]) # {} =>
                      \E i \in 1..Len(ccg.edges) :
                          /\ ccg.edges[i].type = "inherits"
                          /\ {ccg.edges[i].from, ccg.edges[i].to} \cap
                                 IdsNamed(ccg, {"class"}, d[2]) # {}
                          /\ (sClass \o m.module \o sQual \o d[1])
                                 \in {ccg.edges[i].from, ccg.edges[i].to}

\* a path as text without the suffix .py of its last component
WithoutPy(s) == IF EndsWith(s, sPy) THEN SubSeq(s, 1, Len(s) - Len(sPy)) ELSE s

\* C20, as claimed: the module identifier of a file is its path relative to
\* the root, the components joined by "/", without the suffix .py; for a file
\* outside the root it is the base name without the extension.
ModuleIdWithoutSuffix ==
    builds > 0 =>
        {ccg.nodes[k].name : k \in {j \in 1..Len(ccg.nodes) : ccg.nodes[j].type = "module"}}
        = {LET p == Resolve(fs, RootPath(fs) \o e.rel)
               root == Resolve(fs, RootPath(fs))
           IN  IF IsBelow(p, root)
               THEN WithoutPy(Join(SubSeq(p, Len(root) + 1, Len(p)), << "/" >>))
               ELSE WithoutPy(p[Len(p)]) :
             e \in {x \in fs.entries : x.content.ok /\ EndsWith(x.rel[Len(x.rel)], sPy)}}

\* the lines of a text: what lies between its line feeds
Lines(s) ==
    LET nl == {i \in 1..Len(s) : s[i] = "\n"}
        ranked == {<< Cardinality({j \in nl : j < i}) + 1, i >> : i \in nl}
        n == Cardinality(nl)
        end(k) == IF k = n + 1 THEN Len(s) + 1 ELSE (CHOOSE p \in ranked : p[1] = k)[2]
        start(k) == IF k = 1 THEN 1 ELSE end(k - 1) + 1
    IN  [k \in 1..(n + 1) |-> SubSeq(s, start(k), end(k) - 1)]

\* where x first occurs in s
IndexOf(s, x) ==
    CHOOSE i \in 1..Len(s) :
        /\ SubSeq(s, i, i + Len(x) - 1) = x
        /\ \A j \in 1..(i - 1) : SubSeq(s, j, j + Len(x) - 1) # x

sArrow == << " ", "-", "-", ">", "|" >>
sBoxOpen == << "[", "\"" >>
sLabelEnd == << "|", " " >>

\* the parts of a box line  id["label"]  and of an arrow line  src -->|lbl| dst
BoxId(l) == SubSeq(l, Len(Indent) + 1, IndexOf(l, sBoxOpen) - 1)
BoxLabel(l) == SubSeq(l, IndexOf(l, sBoxOpen) + 2, Len(l) - 2)
ArrowSrc(l) == SubSeq(l, Len(Indent) + 1, IndexOf(l, sArrow) - 1)
ArrowLbl(l) == SubSeq(l, IndexOf(l, sArrow) + Len(sArrow), IndexOf(l, sLabelEnd) - 1)
ArrowDst(l) == SubSeq(l, IndexOf(l, sLabelEnd) + 2, Len(l))

\* a node id with every colon, slash, dot and hyphen turned into an underscore
IdImage(id) == [i \in 1..Len(id) |-> IF id[i] \in {":", "/", ".", "-"} THEN "_" ELSE id[i]]

\* text is a diagram of g that shows the first n nodes: one box line per node
\* with its name and type, in order, one arrow line per edge with its type,
\* and no colon, slash, dot or hyphen in an identifier
Rendered(g, text, n) ==
    LET lines == Lines(text)
        arrows == SelectSeq(lines, LAMBDA l : Contains(l, sArrow))
        boxes == SelectSeq(lines, LAMBDA l : ~Contains(l, sArrow) /\ Contains(l, sBoxOpen))
    IN  /\ Len(boxes) = n
        /\ \A k \in 1..n :
              /\ BoxId(boxes[k]) = IdImage(g.nodes[k].id)
              /\ BoxLabel(boxes[k])
                    = g.nodes[k].name \o << "\\", "n", "(" >> \o Chars(g.nodes[k].type) \o << ")" >>
        /\ Len(arrows) = Len(g.edges)
        /\ \A k \in 1..Len(g.edges) :
              /\ ArrowSrc(arrows[k]) = IdImage(g.edges[k].from)
              /\ ArrowDst(arrows[k]) = IdImage(g.edges[k].to)
              /\ ArrowLbl(arrows[k]) = Chars(g.edges[k].type)
        /\ \A k \in 1..Len(boxes) : Range(BoxId(boxes[k])) \cap {":", "/", ".", "-"} = {}
        /\ \A k \in 1..Len(arrows) :
              (Range(ArrowSrc(arrows[k])) \cup Range(ArrowDst(arrows[k])))
                  \cap {":", "/", ".", "-"} = {}

\* C14, as claimed: ccg_to_mermaid renders the whole graph, every node as one
\* labeled box line and every edge as one arrow line with its type, for a
\* graph of any size, the identifiers free of colons, slashes, dots and hyphens.
MermaidRendersWholeGraph ==
    mermaid.called => Rendered(mermaid.arg, mermaid.result, Len(mermaid.arg.nodes))

\* C14, amended: ccg_to_mermaid renders the first max_nodes (300) nodes of the
\* graph, each as one labeled box line, and every edge as one arrow line with
\* its type, the identifiers free of colons, slashes, dots and hyphens.
MermaidRendersFirstNodes ==
    mermaid.called =>
        Rendered(mermaid.arg, mermaid.result,
                 IF Len(mermaid.arg.nodes) < MaxNodesDefault
                 THEN Len(mermaid.arg.nodes) ELSE MaxNodesDefault)

\* C14 witness: the diagram of a graph with more nodes than max_nodes.
LargeGraphRendered ==
    /\ mermaid.called
    /\ Len(mermaid.arg.nodes) > MaxNodesDefault
    /\ Len(Lines(mermaid.result)) = MaxNodesDefault + 3

\* the README files below the root: the files whose name starts with readme,
\* whatever the case of its letters
ReadmeFiles ==
    {e \in fs.entries : StartsWith(Lower(e.rel[Len(e.rel)]), sReadme)}

\* the README whose path, as a string, is the least
FirstReadme ==
    CHOOSE e \in ReadmeFiles :
        \A o \in ReadmeFiles \ {e} :
            StrLess(PathStr(AbsPath(fs) \o e.rel), PathStr(AbsPath(fs) \o o.rel))

\* C15: for an existing path generate_project_summary returns a dict with the
\* keys project_root, repo_path, readme_summary, num_readmes and code_analysis,
\* num_readmes is the length of 'readmes', and readme_summary is the summary of
\* the README that comes first when the paths are sorted (as strings), the
\* empty string when there is no README; for a path that does not exist the
\* call raises FileNotFoundError.
SummaryOfFirstReadme ==
    summary.called =>
        IF fs.exists
        THEN /\ summary.raised = ""
             /\ {"project_root", "repo_path", "readme_summary", "num_readmes",
                 "code_analysis"} \subseteq DOMAIN summary.value
             /\ summary.value.num_readmes = Len(summary.value.readmes)
             /\ summary.value.readme_summary =
                   (IF ReadmeFiles = {} THEN << >>
                    ELSE read_first_paragraph(FirstReadme.content.text))
        ELSE summary.raised = "FileNotFoundError"

\* C15 witness: a summary of two READMEs with different summaries, the one in
\* d-e listed before the one in d.
SummaryOfTwoReadmes ==
    /\ summary.called
    /\ summary.raised = ""
    /\ summary.value.num_readmes = 2
    /\ summary.value.readmes[1].path = << "d", "-", "e", "/", "R", "E", "A", "D", "M", "E" >>
    /\ summary.value.readmes[2].path = << "d", "/", "r", "e", "a", "d", "m", "e" >>
    /\ summary.value.readmes[1].summary # summary.value.readmes[2].summary
    /\ summary.value.readme_summary # << >>

\* C16, as claimed: clone_repo leaves every directory that was at dest_parent
\* before the call as it was, on success and on failure; when
\* dest_parent/<repo_name> was there, the destination is a name no directory
\* had; and a call whose clone fails raises RuntimeError and leaves the
\* directories as they were, no partial clone among them.
CloneKeepsExistingDirs ==
    cloned.called =>
        /\ cloned.before.dirs \subseteq disk.dirs
        /\ cloned.repo_name \in Names(cloned.before)
              => cloned.dest \notin Names(cloned.before)
        /\ cloned.raised = "" =>
              [name |-> cloned.dest, holds |-> "clone"] \in disk.dirs
        /\ cloned.raised # "" =>
              /\ cloned.raised = "RuntimeError"
              /\ disk.dirs = cloned.before.dirs

\* the module a node belongs to: the module itself for a module node
ModuleOfNode(nd) == IF nd.type = "module" THEN nd.name ELSE nd.module

\* the positions in the node set of the function and class nodes named name
DefsNamed(g, name) ==
    {k \in 1..Len(g.nodes) :
        g.nodes[k].type \in {"function", "class"} /\ g.nodes[k].name = name}

\* C23, as claimed: a call of a name N made in a module that itself defines a
\* function or class named N yields a 'calls' edge to that module's own
\* definition of N, also when a module earlier in file order defines N.
CallsPreferOwnModule ==
    builds > 0 =>
        \A i \in 1..Len(ccg.edges) :
            LET e == ccg.edges[i]
                m == ModuleOfNode(NodeInfo(ccg, e.from))
                t == NodeInfo(ccg, e.to)
            IN  (/\ e.type = "calls"
                 /\ \E k \in DefsNamed(ccg, t.name) : ccg.nodes[k].module = m)
                => t.type \in {"function", "class"} /\ t.module = m

\* C23, amended: such a call yields a 'calls' edge to the definition of N that
\* was inserted first, a function or class of the first module in file order
\* that defines N; it is the calling module's own definition exactly when no
\* module earlier in file order defines N.
CallsResolveToFirstDefinition ==
    builds > 0 =>
        \A i \in 1..Len(ccg.edges) :
            LET e == ccg.edges[i]
                m == ModuleOfNode(NodeInfo(ccg, e.from))
                t == NodeInfo(ccg, e.to)
                named == DefsNamed(ccg, t.name)
                first == CHOOSE k \in named : \A j \in named : k <= j
                modules == SelectSeq(ccg.nodes, LAMBDA nd : nd.type = "module")
                pos(x) == CHOOSE k \in 1..Len(modules) : modules[k].name = x
            IN  (/\ e.type = "calls"
                 /\ \E k \in named : ccg.nodes[k].module = m)
                => /\ e.to = ccg.nodes[first].id
                   /\ \A k \in named : pos(t.module) <= pos(ccg.nodes[k].module)
                   /\ t.module = m <=>
                         \A k \in named : pos(m) <= pos(ccg.nodes[k].module)

\* C23 witness: a call of a name the calling module defines that ends in the
\* definition of another module.
CallLeavesOwnModule ==
    /\ builds > 0
    /\ \E i \in 1..Len(ccg.edges) :
          LET e == ccg.edges[i]
              m == ModuleOfNode(NodeInfo(ccg, e.from))
              t == NodeInfo(ccg, e.to)
          IN  /\ e.type = "calls"
              /\ \E k \in DefsNamed(ccg, t.name) : ccg.nodes[k].module = m
              /\ t.type = "function"
              /\ t.module # m

\* the 'calls' edges of the call sites whose target name begins with an
\* uppercase letter, and the 'instantiates' edges, both in the order of the
\* edge list: the k-th of the one and the k-th of the other are of one site
UpperCalls(g) ==
    SelectSeq(g.edges,
        LAMBDA e : e.type = "calls" /\ Head(NodeInfo(g, e.to).name) \in UpperCase)

Instantiations(g) == SelectSeq(g.edges, LAMBDA e : e.type = "instantiates")

\* where a module stands in the order in which the files were processed
ModulePos(g, m) ==
    LET modules == SelectSeq(g.nodes, LAMBDA nd : nd.type = "module")
    IN  CHOOSE k \in 1..Len(modules) : modules[k].name = m

\* some node has the name when the call sites of module m are resolved: a
\* module, definition or base, or the placeholder of a call in an earlier file
KnownWhenResolved(g, m, name) ==
    \/ Matching(g, {"module", "function", "class", "base"}, name) # {}
    \/ \E j \in 1..Len(g.edges) :
          /\ g.edges[j].type = "calls"
          /\ NodeInfo(g, g.edges[j].to).name = name
          /\ ModulePos(g, ModuleOfNode(NodeInfo(g, g.edges[j].from))) < ModulePos(g, m)

\* C24, as claimed: the 'calls' edge and the 'instantiates' edge of a call
\* site whose target name begins with an uppercase letter have the same
\* target node, whether the name is resolved or not.
InstantiatesSharesCallTarget ==
    builds > 0 =>
        /\ Len(UpperCalls(ccg)) = Len(Instantiations(ccg))
        /\ \A k \in 1..Len(Instantiations(ccg)) :
              /\ Instantiations(ccg)[k].from = UpperCalls(ccg)[k].from
              /\ Instantiations(ccg)[k].to = UpperCalls(ccg)[k].to

\* C24, amended: the two edges of such a call site have the same origin, and
\* the same target node when some node has the name N as the file's call
\* sites are resolved; when none has, the 'calls' edge ends in the placeholder
\* fn:unresolved::N and the 'instantiates' edge in the placeholder
\* class:unresolved::N.
InstantiatesSharesResolvedTarget ==
    builds > 0 =>
        /\ Len(UpperCalls(ccg)) = Len(Instantiations(ccg))
        /\ \A k \in 1..Len(Instantiations(ccg)) :
              LET c == UpperCalls(ccg)[k]
                  i == Instantiations(ccg)[k]
                  name == NodeInfo(ccg, c.to).name
                  m == ModuleOfNode(NodeInfo(ccg, c.from))
              IN  /\ i.from = c.from
                  /\ IF KnownWhenResolved(ccg, m, name)
                     THEN i.to = c.to
                     ELSE /\ c.to = sFnUnresolved \o name
                          /\ i.to = sClassUnresolved \o name

\* C24 witness: a graph with a call site of a defined class, both edges ending
\* in the class, and a call site of an unknown capitalised name, the edges
\* ending in the two placeholders.
ResolvedAndPlaceholderSites ==
    /\ builds > 0
    /\ \E k \in 1..Len(Instantiations(ccg)) :
          /\ Instantiations(ccg)[k].to = UpperCalls(ccg)[k].to
          /\ NodeInfo(ccg, Instantiations(ccg)[k].to).type = "class"
    /\ \E k \in 1..Len(Instantiations(ccg)) :
          /\ NodeInfo(ccg, UpperCalls(ccg)[k].to).type = "unresolved"
          /\ NodeInfo(ccg, Instantiations(ccg)[k].to).type = "unresolved_class"

\* C25: all 'instantiates' edges for one class name end in one node, whichever
\* file the call is in, the class being defined or not.
InstantiatesOneNodePerName ==
    builds > 0 =>
        \A i, j \in 1..Len(Instantiations(ccg)) :
            NodeInfo(ccg, Instantiations(ccg)[i].to).name
                    = NodeInfo(ccg, Instantiations(ccg)[j].to).name
                => Instantiations(ccg)[i].to = Instantiations(ccg)[j].to

\* C26: meta.files_analyzed is the number of module nodes of the graph; a file
\* that was skipped is not counted.
ModuleNodes(g) == SelectSeq(g.nodes, LAMBDA nd : nd.type = "module")

FilesAnalyzedCountsModules ==
    builds > 0 => ccg.meta.files_analyzed = Len(ModuleNodes(ccg))

\* the statements of the module body that define a function or a class
ModuleScopeDefs(body) ==
    SelectSeq(body,
        LAMBDA node : node.kind \in {"FunctionDef", "AsyncFunctionDef", "ClassDef"})

DefType(node) == IF node.kind = "ClassDef" THEN "class" ELSE "function"

\* C29: for a .py file that parses, a function or class of the module scope
\* (async def included) is reported by extract_top_level_defs_py if and only
\* if analyze_ccg has a function or class node for it in the file's module.
ExtractorAgreesWithGraph ==
    (builds > 0 /\ defs.called /\ Suffix(defs.arg[Len(defs.arg)]) = sPy) =>
        \A e \in EntriesAt(fs, defs.arg) :
            e.content.ok =>
                \A i \in 1..Len(ModuleScopeDefs(e.content.body)) :
                    LET node == ModuleScopeDefs(e.content.body)[i]
                        m == module_name_from_path(fs, defs.arg)
                    IN  (\E k \in 1..Len(defs.result) :
                            /\ defs.result[k].type = DefType(node)
                            /\ defs.result[k].name = node.name)
                        <=> (\E k \in 1..Len(ccg.nodes) :
                                /\ ccg.nodes[k].type = DefType(node)
                                /\ ccg.nodes[k].module = m
                                /\ ccg.nodes[k].name = node.name)

\* C30: the sanitisation of ccg_to_mermaid is injective on the node ids of the
\* graph it renders: two different node ids never get the same diagram
\* identifier.
SanitizeInjectiveOnGraph ==
    mermaid.called =>
        \A i, j \in 1..Len(mermaid.arg.nodes) :
            Sanitize(mermaid.arg.nodes[i].id) = Sanitize(mermaid.arg.nodes[j].id)
                => mermaid.arg.nodes[i].id = mermaid.arg.nodes[j].id

\* the files build_ccg(path) goes through, in any order of the scan
BuilderFiles(f, path) ==
    LET scan == CHOOSE sc \in ScanOrders(f) : TRUE
        listed == iter_py_files(f, path, scan)
    IN  {listed[i] : i \in 1..Len(listed)}

\* the names of the functions and classes defined at the module scope of a file
RECURSIVE TopLevelNames(_)
TopLevelNames(body) ==
    IF body = << >> THEN {}
    ELSE (IF Head(body).kind \in {"FunctionDef", "ClassDef"} THEN {Head(body).name} ELSE {})
         \cup TopLevelNames(Tail(body))

\* the call sites of a body: the name called and the functions around the call
RECURSIVE CallSitesIn(_, _)
CallSitesIn(body, fns) ==
    IF body = << >> THEN {}
    ELSE LET node == Head(body)
             here == IF node.kind \in {"FunctionDef", "AsyncFunctionDef"}
                     THEN CallSitesIn(node.body, fns \cup {node.name})
                     ELSE IF node.kind = "Call"
                          THEN {[name |-> get_call_name(node.func), fns |-> fns]}
                               \cup CallSitesIn(node.body, fns)
                     ELSE CallSitesIn(node.body, fns)
         IN  here \cup CallSitesIn(Tail(body), fns)

BuiltEdges == {built.value.edges[i] : i \in 1..Len(built.value.edges)}

BuiltNodes == {built.value.nodes[i] : i \in 1..Len(built.value.nodes)}

\* C21: build_ccg never raises because of one file: a path it cannot read (a
\* directory whose name ends in .py), or a file that does not parse, is
\* skipped, and the definitions of the other files are in the graph.
BuildSkipsBadFiles ==
    built.called =>
        /\ built.raised = ""
        /\ \A f \in BuilderFiles(fs, built.arg) :
              \A e \in EntriesAt(fs, Resolve(fs, f)) :
                  e.content.ok =>
                      \A n \in TopLevelNames(e.content.body) :
                          qualname(BuilderModule(Resolve(fs, f)), n) \in BuiltNodes

\* C22: the graph build_ccg returns has no dangling edge: the src and the tgt
\* of every edge are in nodes.
BuiltEdgesHaveNodes ==
    (built.called /\ built.raised = "") =>
        \A e \in BuiltEdges : e.src \in BuiltNodes /\ e.tgt \in BuiltNodes

\* C27: build_ccg(root) skips a file only for the names of the directories
\* between the root and the file: the definitions of every .py file that
\* parses and has no such directory in IGNORE_DIRS are in the graph, also
\* when the root itself lies inside tmp_clones.
BuildIgnoresBelowRootOnly ==
    (built.called /\ built.raised = "" /\ built.arg = fs.root /\ fs.exists) =>
        \A e \in fs.entries :
            (/\ Suffix(e.rel[Len(e.rel)]) = sPy
             /\ e.content.ok
             /\ \A k \in 1..(Len(e.rel) - 1) : e.rel[k] \notin IGNORE_DIRS)
                => \A n \in TopLevelNames(e.content.body) :
                       qualname(BuilderModule(Resolve(fs, fs.root \o e.rel)), n) \in BuiltNodes

\* C28: every call inside the body of a function or method gives a 'call' edge
\* whose src is the qualified name of a function around the call, also after
\* a nested function definition and, in a class body, after a method.
CallsHaveFunctionSrc ==
    (built.called /\ built.raised = "") =>
        \A f \in BuilderFiles(fs, built.arg) :
            \A e \in EntriesAt(fs, Resolve(fs, f)) :
                e.content.ok =>
                    \A site \in CallSitesIn(e.content.body, {}) :
                        (site.fns # {} /\ Truthy(site.name)) =>
                            \E edge \in BuiltEdges :
                                /\ edge.type = "call"
                                /\ edge.tgt = site.name
                                /\ edge.src \in
                                     {qualname(BuilderModule(Resolve(fs, f)), fn) : fn \in site.fns}

====
